---- MODULE Spec2Model ----
(***************************************************************************)
(* State-machine model of the rs-server authentication backend: the        *)
(* circuit breaker (config/circuit_breaker.rs) that guards both stores,    *)
(* and the repository / service operations built on it.                    *)
(***************************************************************************)
EXTENDS Integers, Sequences, FiniteSets, TLC

(***************************************************************************)
(* Bounds of the model.                                                    *)
(***************************************************************************)
NumCallers == 2
MaxTime == 10
TickSecs == 5
FailureThreshold == 2
NumTasks == 2
MaxSessions == 2
MaxCounter == 1
MaxLongTicks == 1
MaxTokens == 3
MaxClockJumps == 2
ClockStart == 1000
MaxLen == 4
MaxCleanups == 2
NumConns == 2

(***************************************************************************)
(* Program constants.                                                      *)
(***************************************************************************)
BackoffInitialSecs == 10
BackoffMaxSecs == 60
SessionWindowMinutes == 30
DecodeLeeway == 60

VARIABLES
    now,        \* wall clock, seconds
    cb,         \* breaker name -> failsafe state machine of that breaker
    gauge,      \* breaker name -> CIRCUIT_BREAKER_STATE gauge of that service
    cpc,        \* caller -> position inside CircuitBreaker::call
    cdep,       \* caller -> the store whose breaker the call goes through
    cout,       \* caller -> outcome of the operation f() of the current call
    cres,       \* caller -> value returned by the last CircuitBreaker::call
    cghost,     \* caller -> history of the current call
    failRun,    \* breaker name -> failing operations in a row, no success between
    stepStore   \* the store of the call that took the latest step

VARIABLES
    users,          \* rows of table users
    sessions,       \* rows of table webauthn_sessions
    credentials,    \* rows of table credentials
    nextUserId,     \* the id the database generates for the next users row
    nextSessionId,  \* the id the database generates for the next session row
    cleanups,       \* per session id, the spawned cleanup_session tasks not yet run
    task,           \* request task -> the handler it runs and where it is
    consumed        \* session ids a finish_register has returned success for

VARIABLES
    tokens,     \* refresh tokens generate_token_pair has issued
    revoked,    \* keys of the revocation list in redis, each with its expiry
    nextJti,    \* the jti generate_jti draws for the next refresh token
    jtask,      \* request task -> the token handler it runs and where it is
    jumps       \* how many times the clock has moved on between requests

VARIABLES
    health,     \* what the latest check_health saw and returned
    dto         \* a request body and what its validation returned

VARIABLES
    cache,      \* PreparedStatementCache: query text -> cached Statement
    prepares,   \* query text -> how many times client.prepare has run for it
    ptask       \* request task -> where it is inside execute_prepared_opt

callerVars == <<cpc, cdep, cout, cres, cghost, failRun, stepStore>>
authVars == <<users, sessions, credentials, nextUserId, nextSessionId, cleanups,
              task, consumed>>
jwtVars == <<tokens, revoked, nextJti, jtask, jumps>>
cacheVars == <<cache, prepares, ptask>>
edgeVars == <<health, dto, cacheVars>>
vars == <<now, cb, gauge, cpc, cdep, cout, cres, cghost, failRun, stepStore,
          users, sessions, credentials, nextUserId, nextSessionId, cleanups,
          task, consumed, tokens, revoked, nextJti, jtask, jumps, health, dto,
          cache, prepares, ptask>>

Min(a, b) == IF a < b THEN a ELSE b
Max(a, b) == IF a > b THEN a ELSE b

(***************************************************************************)
(* AppError values: a kind and its message.                                *)
(***************************************************************************)
Ok(v) == [kind |-> "Ok", info |-> v]
Err(k, m) == [kind |-> k, info |-> m]
NoResult == [kind |-> "None", info |-> ""]

(***************************************************************************)
(* AppState::new: one breaker per store, named after the service.          *)
(***************************************************************************)
Stores == {"postgres", "redis"}
BreakerNames == {"database", "redis"}

circuit_breaker_of_mutant(store) == "database"

circuit_breaker_of(store) == IF store = "postgres" THEN "database" ELSE "redis"

(***************************************************************************)
(* The failsafe state machine behind a breaker:                            *)
(* StateMachine<ConsecutiveFailures<EqualJittered>, ()>.                   *)
(***************************************************************************)
RECURSIVE Pow2(_)
Pow2(n) == IF n = 0 THEN 1 ELSE 2 * Pow2(n - 1)

\* backoff::equal_jittered(initial, max): the exponential delay of step idx,
\* half of it fixed and half of it random; the two ends of the jitter range.
BackoffBase(idx) == Min(BackoffInitialSecs * Pow2(idx), BackoffMaxSecs)
BackoffDelays(idx) == {BackoffBase(idx) \div 2, BackoffBase(idx)}
BackoffNextIdx(idx) == IF BackoffBase(idx) >= BackoffMaxSecs THEN idx ELSE idx + 1

\* Config::new().failure_policy(policy).build()
NewBreaker == [state |-> "Closed", until |-> 0, delay |-> 0,
               num_failures |-> 0, backoff_idx |-> 0]

\* StateMachine::is_call_permitted
is_call_permitted_mutant(b, t) == TRUE

is_call_permitted(b, t) ==
    CASE b.state = "Closed" -> TRUE
      [] b.state = "HalfOpen" -> TRUE
      [] b.state = "Open" -> t > b.until

\* the state is_call_permitted leaves behind: Open turns HalfOpen after the delay
after_permit_check(b, t) ==
    IF b.state = "Open" /\ t > b.until
    THEN [b EXCEPT !.state = "HalfOpen"]
    ELSE b

\* StateMachine::on_success: HalfOpen -> Closed (policy revived), count reset
on_success(b) ==
    IF b.state = "HalfOpen"
    THEN [b EXCEPT !.state = "Closed", !.until = 0, !.delay = 0,
                   !.num_failures = 0, !.backoff_idx = 0]
    ELSE [b EXCEPT !.num_failures = 0]

\* ConsecutiveFailures::mark_dead_on_failure: TRUE when the threshold is reached
mark_dead(b) == b.num_failures + 1 >= FailureThreshold

\* StateMachine::on_error at time t, d the delay the jittered backoff yields
on_error(b, t, d) ==
    CASE b.state = "Closed" ->
            IF mark_dead(b)
            THEN [b EXCEPT !.state = "Open", !.until = t + d, !.delay = d,
                           !.num_failures = Min(b.num_failures + 1, FailureThreshold),
                           !.backoff_idx = BackoffNextIdx(b.backoff_idx)]
            ELSE [b EXCEPT !.num_failures = b.num_failures + 1]
      [] b.state = "HalfOpen" ->
            IF mark_dead(b)
            THEN [b EXCEPT !.state = "Open", !.until = t + d, !.delay = d,
                           !.num_failures = Min(b.num_failures + 1, FailureThreshold),
                           !.backoff_idx = BackoffNextIdx(b.backoff_idx)]
            ELSE [b EXCEPT !.state = "Open", !.until = t + b.delay,
                           !.num_failures = b.num_failures + 1]
      [] OTHER -> b

\* the delays on_error may draw for breaker b
error_delays(b) == BackoffDelays(b.backoff_idx)

\* StateMachine::call(f) at time t for a closure that returns at once, Ok when
\* ok and Err otherwise: refused when the call is not permitted, else the
\* closure runs and on_success / on_error records its result.
failsafe_call(b, t, ok, d) ==
    IF ~is_call_permitted(b, t)
    THEN [rejected |-> TRUE, breaker |-> b]
    ELSE [rejected |-> FALSE,
          breaker |-> IF ok THEN on_success(after_permit_check(b, t))
                      ELSE on_error(after_permit_check(b, t), t, d)]

(***************************************************************************)
(* CircuitBreaker (config/circuit_breaker.rs).                             *)
(***************************************************************************)
Callers == 1..NumCallers

\* the outcomes an operation handed to CircuitBreaker::call can have
OpOutcomes == {Ok("value"), Err("InternalServer", "store error")}

\* BreakerState::as_metric_value
as_metric_value(state) == IF state = "Open" THEN 1 ELSE 0

\* the error CircuitBreaker::call returns when is_open() is true
breaker_open_error(name) == Err("CircuitBreakerOpen", name)

\* CircuitBreaker::is_open: a probe breaker.call(|| Ok(())) that was refused
is_open(b, t) == failsafe_call(b, t, TRUE, 0).rejected

\* the breaker after the probe of is_open
after_is_open(b, t) == failsafe_call(b, t, TRUE, 0).breaker

\* CircuitBreaker::record_success: breaker.call(|| Ok(())), result ignored
record_success(b, t) == failsafe_call(b, t, TRUE, 0).breaker

\* CircuitBreaker::record_failure: breaker.call(|| Err(())); just_opened is
\* TRUE when that call was refused
record_failure(b, t, d) ==
    [just_opened |-> failsafe_call(b, t, FALSE, d).rejected,
     breaker |-> failsafe_call(b, t, FALSE, d).breaker]

\* what CircuitBreaker::call returns for an operation that failed with error
call_failure_result_mutant(error, just_opened) ==
    IF just_opened THEN error ELSE Err("CircuitBreakerOpen", "")

call_failure_result(error, just_opened) == error

NewGhost == [openAtCall |-> FALSE, invocations |-> 0, trial |-> FALSE,
             recorded |-> FALSE]

\* the breaker refuses calls at time t: Open and the delay has not elapsed
BreakerOpen(b, t) == b.state = "Open" /\ t <= b.until

\* call, lines 73-79: is_open(); when open, update_state(Open) and the
\* CircuitBreakerOpen error; otherwise the operation is started.
CallIsOpen(t, store) ==
    LET name == circuit_breaker_of(store)
        b == cb[name]
        g == [NewGhost EXCEPT !.openAtCall = BreakerOpen(b, now),
                              !.trial = (b.state = "Open" /\ now > b.until)]
    IN /\ cpc[t] \in {"idle", "done"}
       /\ cdep' = [cdep EXCEPT ![t] = store]
       /\ cghost' = [cghost EXCEPT ![t] = g]
       /\ cout' = [cout EXCEPT ![t] = NoResult]
       /\ cb' = [cb EXCEPT ![name] = after_is_open(b, now)]
       /\ IF is_open(b, now)
          THEN /\ gauge' = [gauge EXCEPT ![name] = as_metric_value("Open")]
               /\ cpc' = [cpc EXCEPT ![t] = "done"]
               /\ cres' = [cres EXCEPT ![t] = breaker_open_error(name)]
          ELSE /\ cpc' = [cpc EXCEPT ![t] = "invoke"]
               /\ cres' = [cres EXCEPT ![t] = NoResult]
               /\ UNCHANGED gauge
       /\ stepStore' = store
       /\ UNCHANGED <<now, failRun>>

\* call, line 81: f().await, the operation against the store, completes
CallInvoke(t, out) ==
    LET name == circuit_breaker_of(cdep[t])
    IN /\ cpc[t] = "invoke"
       /\ out \in OpOutcomes
       /\ cout' = [cout EXCEPT ![t] = out]
       /\ cghost' = [cghost EXCEPT ![t].invocations = Min(@ + 1, 2)]
       /\ cpc' = [cpc EXCEPT ![t] = IF out.kind = "Ok" THEN "record_success"
                                    ELSE "record_failure"]
       /\ failRun' = IF out.kind = "Ok" THEN [failRun EXCEPT ![name] = 0]
                     ELSE failRun
       /\ stepStore' = cdep[t]
       /\ UNCHANGED <<now, cb, gauge, cdep, cres>>

\* call, lines 82-85: record_success(), update_state(Closed), Ok(result)
CallRecordSuccess(t) ==
    LET name == circuit_breaker_of(cdep[t])
    IN /\ cpc[t] = "record_success"
       /\ cb' = [cb EXCEPT ![name] = record_success(cb[name], now)]
       /\ gauge' = [gauge EXCEPT ![name] = as_metric_value("Closed")]
       /\ cpc' = [cpc EXCEPT ![t] = "done"]
       /\ cres' = [cres EXCEPT ![t] = cout[t]]
       /\ stepStore' = cdep[t]
       /\ UNCHANGED <<now, cdep, cout, cghost, failRun>>

\* call, lines 86-89: record_failure(&error), update_state(Open) only when
\* just_opened, Err(error)
CallRecordFailure(t, d) ==
    LET name == circuit_breaker_of(cdep[t])
        r == record_failure(cb[name], now, d)
    IN /\ cpc[t] = "record_failure"
       /\ d \in error_delays(cb[name])
       /\ cb' = [cb EXCEPT ![name] = r.breaker]
       /\ gauge' = IF r.just_opened
                   THEN [gauge EXCEPT ![name] = as_metric_value("Open")]
                   ELSE gauge
       /\ cpc' = [cpc EXCEPT ![t] = "done"]
       /\ cres' = [cres EXCEPT ![t] = call_failure_result(cout[t], r.just_opened)]
       /\ cghost' = [cghost EXCEPT ![t].recorded = TRUE, ![t].trial = FALSE]
       /\ failRun' = [failRun EXCEPT ![name] = Min(@ + 1, FailureThreshold)]
       /\ stepStore' = cdep[t]
       /\ UNCHANGED <<now, cdep, cout>>

\* time passes
Tick ==
    /\ now + TickSecs <= MaxTime
    /\ now' = now + TickSecs
    /\ UNCHANGED <<cb, gauge, cpc, cdep, cout, cres, cghost, failRun, stepStore>>

(***************************************************************************)
(* The tables the auth repository works on (auth/queries.rs) and the       *)
(* request tasks of the auth service (auth/service.rs).                    *)
(***************************************************************************)
Tasks == 1..NumTasks
Usernames == {"alice", "bob"}
Roles == {"none", "admin"}
SessionIds == 1..MaxSessions
Counters == 0..MaxCounter

\* Duration::minutes(30) in seconds
SessionWindowSecs == 60 * SessionWindowMinutes

\* the column default of users.status
DefaultUserStatus == "pending"

\* users::SELECT_BY_USERNAME
select_by_username(U, username) == {u \in U : u.username = username}

\* users::SELECT_WITH_SESSION: users joined with webauthn_sessions on the
\* user id, filtered by username, session id and purpose
select_with_session_mutant(U, S, username, sid, purpose) ==
    {r \in U \X S : /\ r[1].id = r[2].user_id
                    /\ r[1].username = username
                    /\ r[2].id = sid}

select_with_session(U, S, username, sid, purpose) ==
    {r \in U \X S : /\ r[1].id = r[2].user_id
                    /\ r[1].username = username
                    /\ r[2].id = sid
                    /\ r[2].purpose = purpose}

\* a SELECT without the join condition and without the test of the status
select_active_with_credentials_mutant(U, C, username) ==
    {r \in U \X C : r[1].username = username}

\* users::SELECT_ACTIVE_WITH_CREDENTIALS
select_active_with_credentials(U, C, username) ==
    {r \in U \X C : /\ r[1].id = r[2].user_id
                    /\ r[1].username = username
                    /\ r[1].status = "active"}

\* an UPDATE that flips the status of the user instead of setting it
update_status_active_mutant(U, username) ==
    {IF u.username = username
     THEN [u EXCEPT !.status = IF @ = "pending" THEN "active" ELSE "pending"]
     ELSE u : u \in U}

\* users::UPDATE_STATUS_ACTIVE
update_status_active(U, username) ==
    {IF u.username = username THEN [u EXCEPT !.status = "active"] ELSE u : u \in U}

\* credentials::UPDATE_COUNTER: the table after the update
update_counter(C, cred, counter) ==
    {IF c.id = cred THEN [c EXCEPT !.counter = counter] ELSE c : c \in C}

\* credentials::INSERT executed on the transaction of complete_registration:
\* the table as other connections read it before the commit
insert_in_tx_mutant(C, row) == C \cup {row}

insert_in_tx(C, row) == C

\* webauthn_sessions::DELETE_BY_ID: the rows the statement removes
delete_by_id(S, sid) == {s \in S : s.id = sid}

\* the unique constraint on users.username
username_taken(U, username) == \E u \in U : u.username = username

\* the primary key of credentials
credential_id_taken(C, cred) == \E c \in C : c.id = cred

\* create_user, the match on the row found for the username
create_user_decision_mutant(found, status) ==
    IF found /\ status = "active" THEN "already_exists" ELSE "insert"

create_user_decision(found, status) ==
    IF ~found THEN "insert"
    ELSE IF status = "active" THEN "already_exists"
    ELSE "return"

\* the id of the credential in the response an authenticator makes for the
\* challenge of session sid: a fresh id for every ceremony
credential_of(sid) == sid

\* finish_passkey_authentication, the signature counter c of the response
\* against the counter of the passkey in the session state: it must have
\* advanced, unless the authenticator keeps no counter
counter_accepted(stored, c) == c > stored \/ (c = 0 /\ stored = 0)

\* an engine that asks for an update only when the backup flags changed
needs_update_mutant(stored, c, flags_changed) == flags_changed

\* AuthenticationResult::needs_update: the counter advanced or the backup
\* flags of the credential changed
needs_update(stored, c, flags_changed) == c > stored \/ flags_changed

\* the passkeys in the state of the session with id sid
SessionPasskeys(sid) == UNION {ws.data : ws \in {x \in sessions : x.id = sid}}

\* a parse that lets every string through to the lookup
uuid_parses_mutant(sid) == TRUE

\* Uuid::try_parse of the session id of a finish request; 0 stands for a
\* string that is not a UUID
uuid_parses(sid) == sid # 0

\* no token pair is returned
NoPair == [sub |-> 0, username |-> "", role |-> "none"]

\* a token pair that makes every user an admin
generate_token_pair_mutant(user_id, username, role) ==
    [sub |-> user_id, username |-> username, role |-> "admin"]

\* Jwt::generate_token_pair: the claims both tokens of the pair carry
generate_token_pair(user_id, username, role) ==
    [sub |-> user_id, username |-> username, role |-> role]

\* finish_login holding the user row of its lookup: the pair it returns when
\* it is done, or the role it keeps for the pair while the counter is written
with_user(rec, user) ==
    IF rec.op # "finish_login" THEN rec
    ELSE IF rec.pc = "done"
    THEN [rec EXCEPT !.pair = generate_token_pair(user.id, user.username, user.role)]
    ELSE [rec EXCEPT !.role = user.role]

\* a request task entering handler op; lookup records how the session lookup
\* of a finish handler went, tx how the transaction of complete_registration
\* went
NewTask(op, username, sid) ==
    [op |-> op, pc |-> "start", username |-> username, role |-> "none",
     sid |-> sid, uid |-> 0, cred |-> 0, counter |-> 0, res |-> "None",
     passkeys |-> {}, lookup |-> "na", tx |-> "none", pair |-> NoPair]

\* a request task waiting for a request
IdleTask == [NewTask("none", "", 0) EXCEPT !.pc = "idle"]

\* the handler returns kind to the client and its locals go out of scope
Return(rec, kind) ==
    [rec EXCEPT !.pc = "done", !.res = kind, !.role = "none", !.uid = 0,
                !.cred = 0, !.counter = 0, !.passkeys = {}]

(***************************************************************************)
(* Refresh tokens (auth/jwt/claims.rs) and the revocation list the jwt     *)
(* service keeps in redis (auth/jwt/service.rs).                           *)
(***************************************************************************)
\* REFRESH_TOKEN_DURATION in seconds
RefreshTokenSecs == 24 * 60 * 60

Jtis == 1..MaxTokens

\* RefreshTokenClaims::new at time t: a fresh jti and exp = now + duration;
\* parent remembers the jti of the token whose refresh issued this one, 0
\* for the token of a login
new_refresh_claims(jti, t, parent) ==
    [jti |-> jti, exp |-> t + RefreshTokenSecs, parent |-> parent]

\* what a client can put into the refresh cookie: a token as it was issued,
\* or one whose signature does not verify under the refresh key
Presentable ==
    {[jti |-> k.jti, exp |-> k.exp, sig |-> g] :
         k \in tokens, g \in {"valid", "forged"}}

\* the empty cookie value logout may be called with
EmptyToken == [jti |-> 0, exp |-> 0, sig |-> "none"]

\* jsonwebtoken::decode under Validation::new(HS256) at time t: the signature
\* verifies and exp is not further back than the default leeway
decode_ok(tok, t) == tok.sig = "valid" /\ tok.exp >= t - DecodeLeeway

\* Jwt::blacklist, the ttl handed to SETEX without the 1 second floor
blacklist_ttl_mutant(exp, t) == exp - t

\* Jwt::blacklist, line 171: the ttl handed to SETEX for a token expiring at
\* exp when the clock reads t (the cast to u64 changes no positive value)
blacklist_ttl(exp, t) == IF exp - t <= 0 THEN 1 ELSE exp

\* a write that adds an entry next to the one the key already has
set_ex_mutant(R, jti, ttl, t) ==
    R \cup {[jti |-> jti, ttl |-> ttl, until |-> t + ttl]}

\* SETEX key "1" ttl at time t: the key is written, replacing an older one,
\* and lives until t + ttl
set_ex(R, jti, ttl, t) ==
    {e \in R : e.jti # jti} \cup {[jti |-> jti, ttl |-> ttl, until |-> t + ttl]}

\* EXISTS key at time t
exists(R, jti, t) == \E e \in R : e.jti = jti /\ e.until > t

\* a request task entering refresh or logout with token tok; asked records
\* whether the handler has sent a command to redis, minted the jti of the
\* refresh token it returns
NewJwtTask(op, tok) ==
    [op |-> op, pc |-> "start", jti |-> tok.jti, exp |-> tok.exp,
     sig |-> tok.sig, res |-> "None", why |-> "", asked |-> FALSE,
     minted |-> 0]

IdleJwtTask == [NewJwtTask("none", EmptyToken) EXCEPT !.pc = "idle"]

\* no refresh token has been issued and nothing is revoked
JwtInit ==
    /\ tokens = {}
    /\ revoked = {}
    /\ nextJti = 1
    /\ jtask = [t \in Tasks |-> IdleJwtTask]
    /\ jumps = 0

\* no health check has run and no request body has arrived
NoServiceHealth == [status |-> "None", message |-> <<>>, response_time_ms |-> "None"]
NoHealth == [res |-> "None", database |-> NoServiceHealth,
             redis |-> NoServiceHealth, details |-> <<>>]
NoDto == [kind |-> "none", username |-> <<>>, session_id |-> <<>>,
          credentials |-> "null", res |-> "None", msg |-> ""]

\* query texts execute_prepared_opt can be called with: the one of
\* get_user_by_username and any other text
Queries == {"SELECT_BY_USERNAME", "other"}

\* the pooled connections
Conns == 1..NumConns

\* no Statement: the cache has no entry, the task holds no handle
NoStatement == [conn |-> 0, id |-> 0]

\* a request task outside execute_prepared_opt
IdlePrepared == [pc |-> "idle", query |-> "", client |-> 0, stmt |-> NoStatement,
                 prepared |-> FALSE]

\* PreparedStatementCache::new: an empty map, nothing prepared
CacheInit ==
    /\ cache = [q \in Queries |-> NoStatement]
    /\ prepares = [q \in Queries |-> 0]
    /\ ptask = [t \in 1..NumTasks |-> IdlePrepared]

EdgeInit ==
    /\ health = NoHealth
    /\ dto = NoDto
    /\ CacheInit

\* no cleanup_session task is waiting to run
NoCleanups == [sid \in 1..MaxSessions |-> 0]

\* cleanup_session, tokio::spawn: one more task that will delete session sid
spawn_cleanup(C, sid) == [C EXCEPT ![sid] = @ + 1]

\* a spawned task for session sid has run to its end
cleanup_done(C, sid) == [C EXCEPT ![sid] = @ - 1]

\* a cleanup_session task for session sid is waiting to run
Spawned(sid) == sid \in DOMAIN cleanups /\ cleanups[sid] > 0

\* fewer than MaxCleanups tasks for session sid are waiting to run
CanSpawn(sid) == sid \in DOMAIN cleanups => cleanups[sid] < MaxCleanups

\* an empty database and no request in progress
AuthInit ==
    /\ JwtInit
    /\ EdgeInit
    /\ users = {}
    /\ sessions = {}
    /\ credentials = {}
    /\ nextUserId = 1
    /\ nextSessionId = 1
    /\ cleanups = NoCleanups
    /\ task = [t \in Tasks |-> IdleTask]
    /\ consumed = {}

\* every delay the jittered backoff can yield
AllDelays == UNION {BackoffDelays(i) : i \in 0..3}

\* CircuitBreaker::new for both services; update_state(Closed)
Init ==
    /\ now = 0
    /\ cb = [n \in BreakerNames |-> NewBreaker]
    /\ gauge = [n \in BreakerNames |-> as_metric_value("Closed")]
    /\ cpc = [t \in Callers |-> "idle"]
    /\ cdep = [t \in Callers |-> "postgres"]
    /\ cout = [t \in Callers |-> NoResult]
    /\ cres = [t \in Callers |-> NoResult]
    /\ cghost = [t \in Callers |-> NewGhost]
    /\ failRun = [n \in BreakerNames |-> 0]
    /\ stepStore = "postgres"
    /\ AuthInit

Next ==
    \/ \E t \in Callers, s \in Stores : CallIsOpen(t, s) /\ UNCHANGED <<authVars, jwtVars, edgeVars>>
    \/ \E t \in Callers, out \in OpOutcomes : CallInvoke(t, out) /\ UNCHANGED <<authVars, jwtVars, edgeVars>>
    \/ \E t \in Callers : CallRecordSuccess(t) /\ UNCHANGED <<authVars, jwtVars, edgeVars>>
    \/ \E t \in Callers, d \in AllDelays : CallRecordFailure(t, d) /\ UNCHANGED <<authVars, jwtVars, edgeVars>>
    \/ Tick /\ UNCHANGED <<authVars, jwtVars, edgeVars>>

Spec == Init /\ [][Next]_vars

(***************************************************************************)
(* The auth service over the repository.  Every statement that goes        *)
(* through BaseRepository::execute_with_circuit_breaker is one step: the    *)
(* probe of is_open, the statement, and record_success or record_failure.  *)
(***************************************************************************)
\* CircuitBreaker::call run to completion: the breaker after a call whose
\* operation, if it was started, ended ok
call_breaker(b, t, ok, d) ==
    IF is_open(b, t) THEN after_is_open(b, t)
    ELSE IF ok THEN record_success(after_is_open(b, t), t)
    ELSE record_failure(after_is_open(b, t), t, d).breaker

\* CircuitBreaker::call run to completion: the gauge update_state leaves
call_gauge(g, b, t, ok, d) ==
    IF is_open(b, t) THEN as_metric_value("Open")
    ELSE IF ok THEN as_metric_value("Closed")
    ELSE IF record_failure(after_is_open(b, t), t, d).just_opened
         THEN as_metric_value("Open")
    ELSE g

\* the database breaker refuses the call made now
DbOpen == is_open(cb["database"], now)

\* BaseRepository::execute_with_circuit_breaker around an operation that ends
\* ok when it is started
ExecuteWithCircuitBreaker(ok) ==
    \E d \in IF ok \/ DbOpen THEN {0}
             ELSE error_delays(after_is_open(cb["database"], now)) :
        /\ cb' = [cb EXCEPT !["database"] = call_breaker(@, now, ok, d)]
        /\ gauge' = [gauge EXCEPT !["database"] =
                        call_gauge(@, cb["database"], now, ok, d)]

\* CircuitBreaker::call, lines 73-79, of a database call whose operation
\* spans several steps
BreakerCallStart ==
    /\ cb' = [cb EXCEPT !["database"] = after_is_open(@, now)]
    /\ gauge' = IF DbOpen
                THEN [gauge EXCEPT !["database"] = as_metric_value("Open")]
                ELSE gauge

\* CircuitBreaker::call, lines 81-90, of such a call when its operation has
\* ended
BreakerCallEnd(ok) ==
    \E d \in IF ok THEN {0} ELSE error_delays(cb["database"]) :
        LET r == record_failure(cb["database"], now, d)
        IN /\ cb' = [cb EXCEPT !["database"] =
                        IF ok THEN record_success(@, now) ELSE r.breaker]
           /\ gauge' = IF ok
                       THEN [gauge EXCEPT !["database"] = as_metric_value("Closed")]
                       ELSE IF r.just_opened
                       THEN [gauge EXCEPT !["database"] = as_metric_value("Open")]
                       ELSE gauge

\* the error a call through the breaker returns when the statement did not
\* produce its result
StoreError == IF DbOpen THEN "CircuitBreakerOpen" ELSE "InternalServer"

\* begin_register: get_user_by_username inside create_user, which does not go
\* through the breaker, then the match on the row; start_passkey_registration
\* follows when the user is an existing pending one
BeginRegister(t, u, r) ==
    /\ task[t].pc = "idle"
    /\ \E fail \in BOOLEAN, engine_ok \in BOOLEAN :
         LET rows == select_by_username(users, u)
             found == rows # {}
             row == IF found THEN CHOOSE x \in rows : TRUE
                    ELSE [id |-> 0, username |-> u, role |-> r, status |-> "none"]
             call == [NewTask("begin_register", u, 0) EXCEPT !.role = r]
             decision == create_user_decision(found, row.status)
         IN task' = [task EXCEPT ![t] =
                IF fail \/ Cardinality(rows) > 1
                THEN Return(call, "InternalServer")
                ELSE IF decision = "already_exists"
                THEN Return(call, "AlreadyExists")
                ELSE IF decision = "insert"
                THEN [call EXCEPT !.pc = "insert_user"]
                ELSE IF engine_ok
                THEN [call EXCEPT !.pc = "create_session", !.uid = row.id]
                ELSE Return([call EXCEPT !.uid = row.id], "InternalServer")]
    /\ UNCHANGED <<now, cb, gauge, callerVars, jwtVars, edgeVars, users, sessions, credentials,
                   nextUserId, nextSessionId, cleanups, consumed>>

\* create_user, the insert of a new user (INSERT_WITH_ROLE or
\* INSERT_WITHOUT_ROLE), then start_passkey_registration
CreateUserInsert(t) ==
    /\ task[t].pc = "insert_user"
    /\ \E fail \in BOOLEAN, engine_ok \in BOOLEAN :
         LET me == task[t]
             row == [id |-> nextUserId, username |-> me.username,
                     role |-> me.role, status |-> DefaultUserStatus]
             ran == ~DbOpen /\ ~fail /\ ~username_taken(users, me.username)
             got == [me EXCEPT !.uid = row.id]
         IN /\ ExecuteWithCircuitBreaker(ran)
            /\ users' = IF ran THEN users \cup {row} ELSE users
            /\ nextUserId' = IF ran THEN nextUserId + 1 ELSE nextUserId
            /\ task' = [task EXCEPT ![t] =
                   IF ~ran THEN Return(me, StoreError)
                   ELSE IF engine_ok THEN [got EXCEPT !.pc = "create_session"]
                   ELSE Return(got, "InternalServer")]
    /\ UNCHANGED <<now, callerVars, jwtVars, edgeVars, sessions, credentials, nextSessionId,
                   cleanups, consumed>>

\* create_webauthn_session: the session row with its purpose, the ceremony
\* state (for a login the passkeys begin_login read) and
\* expires_at = Utc::now() + 30 minutes; the handler returns the session id
CreateSession(t) ==
    /\ task[t].pc = "create_session"
    /\ nextSessionId <= MaxSessions
    /\ \E fail \in BOOLEAN :
         LET me == task[t]
             row == [id |-> nextSessionId, user_id |-> me.uid,
                     purpose |-> IF me.op = "begin_register" THEN "registration"
                                 ELSE "login",
                     expires_at |-> now + SessionWindowSecs,
                     data |-> me.passkeys]
             ran == ~DbOpen /\ ~fail
         IN /\ ExecuteWithCircuitBreaker(ran)
            /\ sessions' = IF ran THEN sessions \cup {row} ELSE sessions
            /\ nextSessionId' = IF ran THEN nextSessionId + 1 ELSE nextSessionId
            /\ task' = [task EXCEPT ![t] =
                   IF ran THEN Return([me EXCEPT !.sid = row.id], "Ok")
                   ELSE Return(me, StoreError)]
    /\ UNCHANGED <<now, callerVars, jwtVars, edgeVars, users, credentials, nextUserId, cleanups,
                   consumed>>

\* begin_login: get_active_user_with_credential, then
\* start_passkey_authentication
BeginLogin(t, u) ==
    /\ task[t].pc = "idle"
    /\ \E fail \in BOOLEAN, engine_ok \in BOOLEAN :
         LET rows == select_active_with_credentials(users, credentials, u)
             call == NewTask("begin_login", u, 0)
             ran == ~DbOpen /\ ~fail
             ok == ran /\ rows # {}
             user == (CHOOSE x \in rows : TRUE)[1]
         IN /\ ExecuteWithCircuitBreaker(ok)
            /\ task' = [task EXCEPT ![t] =
                   IF ~ran THEN Return(call, StoreError)
                   ELSE IF ~ok THEN Return(call, "NotFound")
                   ELSE IF engine_ok
                   THEN [call EXCEPT !.pc = "create_session", !.uid = user.id,
                                     !.passkeys = {r[2] : r \in rows}]
                   ELSE Return([call EXCEPT !.uid = user.id], "InternalServer")]
    /\ UNCHANGED <<now, callerVars, jwtVars, edgeVars, users, sessions, credentials, nextUserId,
                   nextSessionId, cleanups, consumed>>

\* the purpose a finish handler passes to get_user_and_session
purpose_of(op) == IF op = "finish_register" THEN "registration" ELSE "login"

\* a finish handler up to the end of the ceremony engine's verification:
\* Uuid::try_parse, Repository::get_user_and_session, deserialisation and
\* finish_passkey_registration / finish_passkey_authentication.  An error at
\* any of these returns before cleanup_session.
FinishLookup(t, op, sid, u, fail, verified, next) ==
    LET call == NewTask(op, u, sid)
        rows == select_with_session(users, sessions, u, sid, purpose_of(op))
        ran == ~DbOpen /\ ~fail /\ Cardinality(rows) <= 1
        ok == ran /\ rows # {}
        user == (CHOOSE x \in rows : TRUE)[1]
    IN IF ~uuid_parses(sid)
       THEN /\ task' = [task EXCEPT ![t] = Return(call, "BadRequest")]
            /\ UNCHANGED <<cb, gauge>>
       ELSE /\ ExecuteWithCircuitBreaker(ok)
            /\ task' = [task EXCEPT ![t] =
                   IF ~ran THEN Return([call EXCEPT !.lookup = "error"], StoreError)
                   ELSE IF ~ok
                   THEN Return([call EXCEPT !.lookup = "notfound"], "NotFound")
                   ELSE IF ~verified
                   THEN Return([call EXCEPT !.lookup = "found"], "InternalServer")
                   ELSE with_user([next EXCEPT !.lookup = "found", !.uid = user.id],
                                  user)]

\* how the part of a finish handler after Uuid::try_parse can go: the lookup
\* statement fails, or it runs and the engine rejects or accepts the response
FinishOutcomes == {"store_error", "rejected", "verified"}

\* finish_register up to complete_registration; cred is the id of the passkey
\* the engine returns
FinishRegister(t, sid, u) ==
    /\ task[t].pc = "idle"
    /\ \E how \in FinishOutcomes :
         FinishLookup(t, "finish_register", sid, u, how = "store_error",
             how = "verified",
             [NewTask("finish_register", u, sid) EXCEPT
                 !.pc = "complete_registration", !.cred = credential_of(sid)])
    /\ UNCHANGED <<now, callerVars, jwtVars, edgeVars, users, sessions, credentials, nextUserId,
                   nextSessionId, cleanups, consumed>>

\* the credential row the transaction of task t has written and not yet
\* committed
TxCredential(t) == [id |-> task[t].cred, user_id |-> task[t].uid, counter |-> 0]

\* task t has a transaction open that has inserted credential id cred
TxHoldsCredential(t, cred) ==
    task[t].pc \in {"activate_user", "commit"} /\ task[t].cred = cred

\* complete_registration up to create_credential: the probe of the breaker, a
\* pooled connection, BEGIN, and the INSERT of the credential on the
\* transaction; the INSERT waits while another open transaction holds the id
CompleteRegistration(t) ==
    /\ task[t].pc = "complete_registration"
    /\ \A o \in Tasks \ {t} : ~TxHoldsCredential(o, task[t].cred)
    /\ \E fail \in BOOLEAN :
         LET me == task[t]
             ran == /\ ~DbOpen
                    /\ ~fail
                    /\ ~credential_id_taken(credentials, me.cred)
         IN /\ IF ran THEN BreakerCallStart ELSE ExecuteWithCircuitBreaker(FALSE)
            /\ credentials' = IF ran THEN insert_in_tx(credentials, TxCredential(t))
                              ELSE credentials
            /\ task' = [task EXCEPT ![t] =
                   IF ran THEN [me EXCEPT !.pc = "activate_user", !.tx = "open"]
                   ELSE Return(me, StoreError)]
    /\ UNCHANGED <<now, callerVars, jwtVars, edgeVars, users, sessions, nextUserId, nextSessionId,
                   cleanups, consumed>>

\* complete_registration, activate_user: UPDATE_STATUS_ACTIVE on the
\* transaction; an error drops the transaction, which rolls it back
ActivateUser(t) ==
    /\ task[t].pc = "activate_user"
    /\ \E fail \in BOOLEAN :
         IF fail
         THEN /\ BreakerCallEnd(FALSE)
              /\ task' = [task EXCEPT ![t] =
                     Return([task[t] EXCEPT !.tx = "rolled_back"], "InternalServer")]
         ELSE /\ task' = [task EXCEPT ![t].pc = "commit"]
              /\ UNCHANGED <<cb, gauge>>
    /\ UNCHANGED <<now, callerVars, jwtVars, edgeVars, users, sessions, credentials, nextUserId,
                   nextSessionId, cleanups, consumed>>

\* complete_registration, tx.commit(): both writes become visible together;
\* then cleanup_session spawns the delete and finish_register returns
CommitRegistration(t) ==
    /\ task[t].pc = "commit"
    /\ CanSpawn(task[t].sid)
    /\ \E fail \in BOOLEAN :
         LET me == task[t]
         IN /\ BreakerCallEnd(~fail)
            /\ credentials' = IF fail THEN credentials
                              ELSE credentials \cup {TxCredential(t)}
            /\ users' = IF fail THEN users
                        ELSE update_status_active(users, me.username)
            /\ cleanups' = IF fail THEN cleanups ELSE spawn_cleanup(cleanups, me.sid)
            /\ consumed' = IF fail THEN consumed ELSE consumed \cup {me.sid}
            /\ task' = [task EXCEPT ![t] =
                   IF fail
                   THEN Return([me EXCEPT !.tx = "rolled_back"], "InternalServer")
                   ELSE Return([me EXCEPT !.tx = "committed"], "Ok")]
    /\ UNCHANGED <<now, callerVars, jwtVars, edgeVars, sessions, nextUserId, nextSessionId>>

\* finish_login up to the test of needs_update; without an update
\* cleanup_session spawns the delete and the tokens are returned.  counter is
\* the signature counter in the response; a response to a session without
\* passkeys is never verified, whatever it holds
FinishLoginWith(t, sid, u, counter) ==
    /\ task[t].pc = "idle"
    /\ CanSpawn(sid)
    /\ SessionPasskeys(sid) = {} => counter = 0
    /\ \E how \in FinishOutcomes,
          flags_changed \in IF SessionPasskeys(sid) = {} THEN {FALSE} ELSE BOOLEAN,
          pk \in IF SessionPasskeys(sid) = {}
                 THEN {[id |-> 0, user_id |-> 0, counter |-> 0]}
                 ELSE SessionPasskeys(sid) :
         /\ FinishLookup(t, "finish_login", sid, u, how = "store_error",
               /\ how = "verified"
               /\ pk \in SessionPasskeys(sid)
               /\ counter_accepted(pk.counter, counter),
               IF needs_update(pk.counter, counter, flags_changed)
               THEN [NewTask("finish_login", u, sid) EXCEPT
                        !.pc = "update_credential", !.cred = pk.id,
                        !.counter = counter]
               ELSE Return(NewTask("finish_login", u, sid), "Ok"))
         /\ cleanups' = IF task'[t].pc = "done" /\ task'[t].res = "Ok"
                        THEN spawn_cleanup(cleanups, sid) ELSE cleanups
    /\ UNCHANGED <<now, callerVars, jwtVars, edgeVars, users, sessions, credentials, nextUserId,
                   nextSessionId, consumed>>

FinishLogin(t, sid, u) == \E counter \in Counters : FinishLoginWith(t, sid, u, counter)

\* finish_login from update_credential on: UPDATE_COUNTER, Not-Found when no
\* row was updated, then cleanup_session and the tokens
UpdateCredential(t) ==
    /\ task[t].pc = "update_credential"
    /\ CanSpawn(task[t].sid)
    /\ \E fail \in BOOLEAN :
         LET me == task[t]
             ran == ~DbOpen /\ ~fail
             ok == ran /\ credential_id_taken(credentials, me.cred)
         IN /\ ExecuteWithCircuitBreaker(ok)
            /\ credentials' = IF ran
                              THEN update_counter(credentials, me.cred, me.counter)
                              ELSE credentials
            /\ cleanups' = IF ok THEN spawn_cleanup(cleanups, me.sid) ELSE cleanups
            /\ task' = [task EXCEPT ![t] =
                   IF ok
                   THEN [Return(me, "Ok") EXCEPT !.pair =
                            generate_token_pair(me.uid, me.username, me.role)]
                   ELSE Return(me, IF ran THEN "NotFound" ELSE StoreError)]
    /\ UNCHANGED <<now, callerVars, jwtVars, edgeVars, users, sessions, nextUserId, nextSessionId,
                   consumed>>

\* a handler that reports the error of the deletion of its session
cleanup_result_mutant(rec, sid, outcome) ==
    IF rec.pc = "done" /\ rec.sid = sid /\ outcome # "Ok"
    THEN [rec EXCEPT !.res = outcome]
    ELSE rec

\* cleanup_session, lines 269-271: what the outcome of the spawned deletion
\* of session sid does to a request task: the error is logged and dropped
cleanup_result(rec, sid, outcome) == rec

\* delete_webauthn_session: what the call through the breaker returns
delete_outcome(open, fail, hit) ==
    IF open THEN "CircuitBreakerOpen"
    ELSE IF fail THEN "InternalServer"
    ELSE IF hit = {} THEN "NotFound"
    ELSE "Ok"

\* the task cleanup_session spawned runs delete_webauthn_session; its error
\* is logged and dropped
CleanupSession(sid) ==
    /\ Spawned(sid)
    /\ \E fail \in BOOLEAN :
         LET ran == ~DbOpen /\ ~fail
             hit == delete_by_id(sessions, sid)
             outcome == delete_outcome(DbOpen, fail, hit)
         IN /\ ExecuteWithCircuitBreaker(outcome = "Ok")
            /\ sessions' = IF ran THEN sessions \ hit ELSE sessions
            /\ task' = [t \in Tasks |-> cleanup_result(task[t], sid, outcome)]
    /\ cleanups' = cleanup_done(cleanups, sid)
    /\ UNCHANGED <<now, callerVars, jwtVars, edgeVars, users, credentials, nextUserId,
                   nextSessionId, consumed>>

\* the response has been written; the task waits for the next request
Respond(t) ==
    /\ task[t].pc = "done"
    /\ task' = [task EXCEPT ![t] = IdleTask]
    /\ UNCHANGED <<now, cb, gauge, callerVars, jwtVars, edgeVars, users, sessions, credentials,
                   nextUserId, nextSessionId, cleanups, consumed>>

\* the time between two requests in which every session existing before it
\* runs out
LongTickSecs == 2 * SessionWindowSecs

LongTick ==
    /\ now < MaxLongTicks * LongTickSecs
    /\ now' = now + LongTickSecs
    /\ UNCHANGED <<cb, gauge, callerVars, authVars, jwtVars, edgeVars>>

\* the breaker after n failures in a row recorded at time t
RECURSIVE failures_recorded(_, _, _, _)
failures_recorded(b, t, d, n) ==
    IF n = 0 THEN b ELSE failures_recorded(on_error(b, t, d), t, d, n - 1)

\* the service starts with an empty database; the database breaker is closed,
\* or open because FailureThreshold overlapping calls have just failed
InitAuth ==
    /\ now = 0
    /\ \E b \in {NewBreaker} \cup
                {failures_recorded(NewBreaker, 0, d, FailureThreshold) :
                     d \in BackoffDelays(0)} :
          cb = [n \in BreakerNames |-> IF n = "database" THEN b ELSE NewBreaker]
    /\ gauge = [n \in BreakerNames |-> as_metric_value("Closed")]
    /\ cpc = [t \in Callers |-> "idle"]
    /\ cdep = [t \in Callers |-> "postgres"]
    /\ cout = [t \in Callers |-> NoResult]
    /\ cres = [t \in Callers |-> NoResult]
    /\ cghost = [t \in Callers |-> NewGhost]
    /\ failRun = [n \in BreakerNames |-> 0]
    /\ stepStore = "postgres"
    /\ AuthInit

\* the task that takes the requests when they arrive one after another
SerialTasks == {1}

NextAuth ==
    \/ \E t \in SerialTasks, u \in Usernames, r \in Roles : BeginRegister(t, u, r)
    \/ \E t \in SerialTasks : CreateUserInsert(t)
    \/ \E t \in SerialTasks : CreateSession(t)
    \/ \E t \in SerialTasks, u \in Usernames : BeginLogin(t, u)
    \/ \E t \in SerialTasks, sid \in 0..MaxSessions, u \in Usernames :
          FinishRegister(t, sid, u)
    \/ \E t \in SerialTasks : CompleteRegistration(t)
    \/ \E t \in SerialTasks : ActivateUser(t)
    \/ \E t \in SerialTasks : CommitRegistration(t)
    \/ \E t \in SerialTasks, sid \in 0..MaxSessions, u \in Usernames :
          FinishLogin(t, sid, u)
    \/ \E t \in SerialTasks : UpdateCredential(t)
    \/ \E sid \in SessionIds : CleanupSession(sid)
    \/ \E t \in SerialTasks : Respond(t)
    \/ LongTick

SpecAuth == InitAuth /\ [][NextAuth]_vars

\* the runtime runs every task cleanup_session has spawned: tokio::spawn
\* hands the task to the scheduler, which polls it until it completes
CleanupFairness == \A sid \in SessionIds : WF_vars(CleanupSession(sid))

SpecAuthFair == SpecAuth /\ CleanupFairness

\* registrations of one username handled by several request tasks at once
NextRegister ==
    \/ \E t \in Tasks, r \in Roles : BeginRegister(t, "alice", r)
    \/ \E t \in Tasks : CreateUserInsert(t)
    \/ \E t \in Tasks : CreateSession(t)
    \/ \E t \in Tasks, sid \in SessionIds : FinishRegister(t, sid, "alice")
    \/ \E t \in Tasks : CompleteRegistration(t)
    \/ \E t \in Tasks : ActivateUser(t)
    \/ \E t \in Tasks : CommitRegistration(t)
    \/ \E sid \in SessionIds : CleanupSession(sid)
    \/ \E t \in Tasks : Respond(t)

SpecRegister == Init /\ [][NextRegister]_vars

\* the counters an authenticator sends while logins of one user overlap
LoginCounters == 0..(MaxCounter + 1)

\* the credential of a user who registered in a session that is gone by now
RegisteredCredential == [id |-> MaxSessions + 1, user_id |-> 1, counter |-> 0]

\* a registered user: alice is active and owns one credential whose counter
\* is still 0; no session is open and no request is in progress
InitLogin ==
    /\ now = 0
    /\ cb = [n \in BreakerNames |-> NewBreaker]
    /\ gauge = [n \in BreakerNames |-> as_metric_value("Closed")]
    /\ cpc = [t \in Callers |-> "idle"]
    /\ cdep = [t \in Callers |-> "postgres"]
    /\ cout = [t \in Callers |-> NoResult]
    /\ cres = [t \in Callers |-> NoResult]
    /\ cghost = [t \in Callers |-> NewGhost]
    /\ failRun = [n \in BreakerNames |-> 0]
    /\ stepStore = "postgres"
    /\ users = {[id |-> 1, username |-> "alice", role |-> "none",
                 status |-> "active"]}
    /\ sessions = {}
    /\ credentials = {RegisteredCredential}
    /\ nextUserId = 2
    /\ nextSessionId = 1
    /\ cleanups = NoCleanups
    /\ task = [t \in Tasks |-> IdleTask]
    /\ consumed = {}
    /\ JwtInit
    /\ EdgeInit

\* logins of one user handled by several request tasks at once
NextLogin ==
    \/ \E t \in Tasks : BeginLogin(t, "alice")
    \/ \E t \in Tasks : CreateSession(t)
    \/ \E t \in Tasks, sid \in SessionIds, counter \in LoginCounters :
          FinishLoginWith(t, sid, "alice", counter)
    \/ \E t \in Tasks : UpdateCredential(t)
    \/ \E sid \in SessionIds : CleanupSession(sid)
    \/ \E t \in Tasks : Respond(t)

SpecLogin == InitLogin /\ [][NextLogin]_vars

\* the redis breaker refuses the call made now
RedisOpen == is_open(cb["redis"], now)

\* BaseRedisRepository::execute_with_circuit_breaker around a command that
\* ends ok when it is started
RedisExecuteWithCircuitBreaker(ok) ==
    \E d \in IF ok \/ RedisOpen THEN {0}
             ELSE error_delays(after_is_open(cb["redis"], now)) :
        /\ cb' = [cb EXCEPT !["redis"] = call_breaker(@, now, ok, d)]
        /\ gauge' = [gauge EXCEPT !["redis"] =
                        call_gauge(@, cb["redis"], now, ok, d)]

\* the error a redis call through the breaker returns when the command did
\* not produce its result
RedisError == IF RedisOpen THEN "CircuitBreakerOpen" ELSE "InternalServer"

\* the token handler returns kind to the client
JwtReturn(rec, kind, why) == [rec EXCEPT !.pc = "done", !.res = kind, !.why = why]

\* a validation that accepts the token when the revocation list cannot be
\* asked
validate_refresh_fail_open(tok, fail) ==
    IF ~decode_ok(tok, now)
    THEN [res |-> "Unauthorized", why |-> "invalid", asked |-> FALSE]
    ELSE IF RedisOpen \/ fail
    THEN [res |-> "Ok", why |-> "", asked |-> ~RedisOpen]
    ELSE IF exists(revoked, tok.jti, now)
    THEN [res |-> "Unauthorized", why |-> "revoked", asked |-> TRUE]
    ELSE [res |-> "Ok", why |-> "", asked |-> TRUE]

\* a validation that asks the revocation list before it decodes the token
validate_refresh_mutant(tok, fail) ==
    IF RedisOpen \/ fail
    THEN [res |-> RedisError, why |-> "store", asked |-> ~RedisOpen]
    ELSE IF exists(revoked, tok.jti, now)
    THEN [res |-> "Unauthorized", why |-> "revoked", asked |-> TRUE]
    ELSE IF ~decode_ok(tok, now)
    THEN [res |-> "Unauthorized", why |-> "invalid", asked |-> TRUE]
    ELSE [res |-> "Ok", why |-> "", asked |-> TRUE]

\* RefreshTokenClaims::validate for token tok, the redis command failing when
\* fail: decode first, its error returned by `?` as Unauthorized; then
\* is_blacklisted, its error returned by `?`; then the revoked test
validate_refresh(tok, fail) ==
    IF ~decode_ok(tok, now)
    THEN [res |-> "Unauthorized", why |-> "invalid", asked |-> FALSE]
    ELSE IF RedisOpen \/ fail
    THEN [res |-> RedisError, why |-> "store", asked |-> ~RedisOpen]
    ELSE IF exists(revoked, tok.jti, now)
    THEN [res |-> "Unauthorized", why |-> "revoked", asked |-> TRUE]
    ELSE [res |-> "Ok", why |-> "", asked |-> TRUE]

\* the breaker and the gauge after validate_refresh: untouched when decode
\* fails, else after the call of is_blacklisted
ValidateRefreshBreaker(tok, fail) ==
    IF decode_ok(tok, now)
    THEN RedisExecuteWithCircuitBreaker(~RedisOpen /\ ~fail)
    ELSE UNCHANGED <<cb, gauge>>

\* refresh tokens the refresh handlers in progress are still going to issue
PendingMints ==
    Cardinality({o \in Tasks : jtask[o].op = "refresh" /\ jtask[o].pc = "blacklist"})

\* AuthService::refresh up to the end of validate_refresh
Refresh(t, tok) ==
    /\ jtask[t].pc = "idle"
    /\ nextJti + PendingMints <= MaxTokens
    /\ \E fail \in IF decode_ok(tok, now) /\ ~RedisOpen THEN BOOLEAN ELSE {FALSE} :
         LET v == validate_refresh(tok, fail)
             call == [NewJwtTask("refresh", tok) EXCEPT !.asked = v.asked]
         IN /\ ValidateRefreshBreaker(tok, fail)
            /\ jtask' = [jtask EXCEPT ![t] =
                   IF v.res = "Ok" THEN [call EXCEPT !.pc = "blacklist"]
                   ELSE JwtReturn(call, v.res, v.why)]
    /\ UNCHANGED <<now, callerVars, authVars, edgeVars, tokens, revoked, nextJti, jumps>>

\* a logout that hands the error of its jwt call on to the client
logout_result_mutant(res) == res

\* AuthService::logout, lines 173-182: `if let Ok` and `if let Err` consume
\* the result res of validate_refresh and of blacklist, and Ok is returned
logout_result(res) == "Ok"

\* a logout that revokes whatever token it is given
logout_revokes_mutant(tok, res) == tok # EmptyToken

\* AuthService::logout, lines 172-173: blacklist is called for a token that
\* is not empty and for which validate_refresh returned res = Ok
logout_revokes(tok, res) == tok # EmptyToken /\ res = "Ok"

\* a refresh that mints a pair whatever blacklist returned
refresh_mints_mutant(op, blacklisted) == op = "refresh"

\* AuthService::refresh, lines 153-161: generate_token_pair is reached when
\* the `?` after blacklist let an Ok through
refresh_mints(op, blacklisted) == op = "refresh" /\ blacklisted

\* AuthService::logout up to the end of validate_refresh: an empty token and
\* a token that does not validate are answered with success at once
Logout(t, tok) ==
    /\ jtask[t].pc = "idle"
    /\ \E fail \in IF tok # EmptyToken /\ decode_ok(tok, now) /\ ~RedisOpen
                   THEN BOOLEAN ELSE {FALSE} :
         LET v == validate_refresh(tok, fail)
             call == NewJwtTask("logout", tok)
         IN IF tok = EmptyToken
            THEN /\ jtask' = [jtask EXCEPT ![t] = JwtReturn(call, "Ok", "")]
                 /\ UNCHANGED <<cb, gauge>>
            ELSE /\ ValidateRefreshBreaker(tok, fail)
                 /\ jtask' = [jtask EXCEPT ![t] =
                        IF logout_revokes(tok, v.res)
                        THEN [call EXCEPT !.pc = "blacklist", !.asked = v.asked]
                        ELSE JwtReturn([call EXCEPT !.asked = v.asked],
                                       logout_result(v.res), v.why)]
    /\ UNCHANGED <<now, callerVars, authVars, edgeVars, tokens, revoked, nextJti, jumps>>

\* Jwt::blacklist(jti, exp) and what follows it: refresh returns its error or
\* issues the new pair, logout logs its error and returns success
Blacklist(t) ==
    /\ jtask[t].pc = "blacklist"
    /\ \E fail \in IF RedisOpen THEN {FALSE} ELSE BOOLEAN :
         LET me == jtask[t]
             ok == ~RedisOpen /\ ~fail
             mint == refresh_mints(me.op, ok)
         IN /\ RedisExecuteWithCircuitBreaker(ok)
            /\ revoked' = IF ok
                          THEN set_ex(revoked, me.jti, blacklist_ttl(me.exp, now), now)
                          ELSE revoked
            /\ tokens' = IF mint
                         THEN tokens \cup {new_refresh_claims(nextJti, now, me.jti)}
                         ELSE tokens
            /\ nextJti' = IF mint THEN nextJti + 1 ELSE nextJti
            /\ jtask' = [jtask EXCEPT ![t] =
                   IF me.op = "logout"
                   THEN JwtReturn([me EXCEPT !.asked = ~RedisOpen],
                                  logout_result(IF ok THEN "Ok" ELSE RedisError),
                                  IF ok THEN "" ELSE "store")
                   ELSE IF ok THEN JwtReturn([me EXCEPT !.minted = nextJti], "Ok", "")
                   ELSE JwtReturn(me, RedisError, "store")]
    /\ UNCHANGED <<now, callerVars, authVars, edgeVars, jumps>>

\* the response has gone out; the task takes the next request
JwtRespond(t) ==
    /\ jtask[t].pc = "done"
    /\ jtask' = [jtask EXCEPT ![t] = IdleJwtTask]
    /\ UNCHANGED <<now, cb, gauge, callerVars, authVars, edgeVars, tokens, revoked,
                   nextJti, jumps>>

\* the time that passes between two requests: a second, or the lifetime of a
\* refresh token
ClockSteps == {1, RefreshTokenSecs}

ClockJump(d) ==
    /\ jumps < MaxClockJumps
    /\ now' = now + d
    /\ jumps' = jumps + 1
    /\ UNCHANGED <<cb, gauge, callerVars, authVars, edgeVars, tokens, revoked, nextJti,
                   jtask>>

\* a client that logged in when the clock read ClockStart holds refresh token
\* 1; nothing is revoked and both stores answer
InitJwt ==
    /\ now = ClockStart
    /\ cb = [n \in BreakerNames |-> NewBreaker]
    /\ gauge = [n \in BreakerNames |-> as_metric_value("Closed")]
    /\ cpc = [t \in Callers |-> "idle"]
    /\ cdep = [t \in Callers |-> "postgres"]
    /\ cout = [t \in Callers |-> NoResult]
    /\ cres = [t \in Callers |-> NoResult]
    /\ cghost = [t \in Callers |-> NewGhost]
    /\ failRun = [n \in BreakerNames |-> 0]
    /\ stepStore = "postgres"
    /\ users = {[id |-> 1, username |-> "alice", role |-> "none",
                 status |-> "active"]}
    /\ sessions = {}
    /\ credentials = {RegisteredCredential}
    /\ nextUserId = 2
    /\ nextSessionId = 1
    /\ cleanups = NoCleanups
    /\ task = [t \in Tasks |-> IdleTask]
    /\ consumed = {}
    /\ tokens = {new_refresh_claims(1, ClockStart, 0)}
    /\ revoked = {}
    /\ nextJti = 2
    /\ jtask = [t \in Tasks |-> IdleJwtTask]
    /\ jumps = 0
    /\ EdgeInit

\* refresh and logout requests handled by several request tasks at once
NextJwt ==
    \/ \E t \in Tasks, tok \in Presentable : Refresh(t, tok)
    \/ \E t \in Tasks, tok \in Presentable \cup {EmptyToken} : Logout(t, tok)
    \/ \E t \in Tasks : Blacklist(t)
    \/ \E t \in Tasks : JwtRespond(t)
    \/ \E d \in ClockSteps : ClockJump(d)

SpecJwt == InitJwt /\ [][NextJwt]_vars

\* ACCESS_TOKEN_DURATION in seconds
AccessTokenSecs == 5 * 60

\* AccessTokenClaims::new in the pair of refresh token k: exp = now + duration
\* at the time k was made; jti names the refresh token of the same pair (the
\* access token itself carries none)
access_claims_of(k) ==
    [jti |-> k.jti, exp |-> (k.exp - RefreshTokenSecs) + AccessTokenSecs]

\* what a client can put into the Authorization header: an access token as
\* it was issued, or one whose signature does not verify under the access key
PresentableAccess ==
    {[jti |-> access_claims_of(k).jti, exp |-> access_claims_of(k).exp, sig |-> g] :
         k \in tokens, g \in {"valid", "forged"}}

\* a validation that rejects the access token of a pair whose refresh token
\* is on the revocation list
validate_access_mutant(tok, t) ==
    IF decode_ok(tok, t) /\ ~exists(revoked, tok.jti, t) THEN "Ok" ELSE "Unauthorized"

\* AccessTokenClaims::validate at time t: decode under Validation::new(EdDSA),
\* its error returned by `?` as Unauthorized
validate_access(tok, t) == IF decode_ok(tok, t) THEN "Ok" ELSE "Unauthorized"

\* the extractor of AccessTokenClaims on a protected route: validate_access
\* of the bearer token
ValidateAccess(t, tok) ==
    /\ jtask[t].pc = "idle"
    /\ jtask' = [jtask EXCEPT ![t] =
           JwtReturn(NewJwtTask("validate_access", tok), validate_access(tok, now), "")]
    /\ UNCHANGED <<now, cb, gauge, callerVars, authVars, edgeVars, tokens, revoked,
                   nextJti, jumps>>

\* requests with access tokens between the refresh and logout requests of
\* one client, a request arriving when the one before it has been answered
NextAccess ==
    \/ \E t \in SerialTasks, tok \in Presentable : Refresh(t, tok)
    \/ \E t \in SerialTasks, tok \in Presentable \cup {EmptyToken} : Logout(t, tok)
    \/ \E t \in SerialTasks : Blacklist(t)
    \/ \E t \in SerialTasks, tok \in PresentableAccess : ValidateAccess(t, tok)
    \/ \E t \in SerialTasks : JwtRespond(t)
    \/ \E d \in ClockSteps : ClockJump(d)

\* the client of InitJwt at a service whose redis breaker is closed, or open
\* because FailureThreshold overlapping calls have just failed
InitAccess ==
    /\ now = ClockStart
    /\ \E b \in {NewBreaker} \cup
                {failures_recorded(NewBreaker, ClockStart, d, FailureThreshold) :
                     d \in BackoffDelays(0)} :
          cb = [n \in BreakerNames |-> IF n = "redis" THEN b ELSE NewBreaker]
    /\ gauge = [n \in BreakerNames |-> as_metric_value("Closed")]
    /\ cpc = [t \in Callers |-> "idle"]
    /\ cdep = [t \in Callers |-> "postgres"]
    /\ cout = [t \in Callers |-> NoResult]
    /\ cres = [t \in Callers |-> NoResult]
    /\ cghost = [t \in Callers |-> NewGhost]
    /\ failRun = [n \in BreakerNames |-> 0]
    /\ stepStore = "postgres"
    /\ users = {[id |-> 1, username |-> "alice", role |-> "none",
                 status |-> "active"]}
    /\ sessions = {}
    /\ credentials = {RegisteredCredential}
    /\ nextUserId = 2
    /\ nextSessionId = 1
    /\ cleanups = NoCleanups
    /\ task = [t \in Tasks |-> IdleTask]
    /\ consumed = {}
    /\ tokens = {new_refresh_claims(1, ClockStart, 0)}
    /\ revoked = {}
    /\ nextJti = 2
    /\ jtask = [t \in Tasks |-> IdleJwtTask]
    /\ jumps = 0
    /\ EdgeInit

SpecAccess == InitAccess /\ [][NextAccess]_vars

\* every handler of the auth service, a request arriving when the one before
\* it has been answered, at a service where alice is registered and holds a
\* refresh token
NextService ==
    \/ \E t \in SerialTasks, u \in Usernames :
          jtask[t].pc = "idle" /\ BeginRegister(t, u, "none")
    \/ \E t \in SerialTasks : CreateUserInsert(t)
    \/ \E t \in SerialTasks : CreateSession(t)
    \/ \E t \in SerialTasks, u \in Usernames :
          jtask[t].pc = "idle" /\ BeginLogin(t, u)
    \/ \E t \in SerialTasks, sid \in SessionIds, u \in Usernames :
          jtask[t].pc = "idle" /\ FinishRegister(t, sid, u)
    \/ \E t \in SerialTasks : CompleteRegistration(t)
    \/ \E t \in SerialTasks : ActivateUser(t)
    \/ \E t \in SerialTasks : CommitRegistration(t)
    \/ \E t \in SerialTasks, sid \in SessionIds, u \in Usernames :
          jtask[t].pc = "idle" /\ FinishLogin(t, sid, u)
    \/ \E t \in SerialTasks : UpdateCredential(t)
    \/ \E sid \in SessionIds : CleanupSession(sid)
    \/ \E t \in SerialTasks : Respond(t)
    \/ \E t \in SerialTasks, tok \in Presentable :
          task[t].pc = "idle" /\ Refresh(t, tok)
    \/ \E t \in SerialTasks, tok \in Presentable \cup {EmptyToken} :
          task[t].pc = "idle" /\ Logout(t, tok)
    \/ \E t \in SerialTasks : Blacklist(t)
    \/ \E t \in SerialTasks : JwtRespond(t)

SpecService == InitJwt /\ [][NextService]_vars

(***************************************************************************)
(* The health check: utils/health.rs, BaseRepository::check_database_health *)
(* and BaseRedisRepository::check_redis_health, AuthService::check_health.  *)
(***************************************************************************)
\* what a store does with the probe statement: it answers, it fails, or it
\* takes longer than the 5 seconds perform_health_check waits
ProbeOutcomes == {"ok", "error", "timeout"}

\* a health check that reports a latency for a probe that timed out
perform_health_check_mutant(check_name, result) ==
    [status |-> IF result = "ok" THEN "Healthy" ELSE "Unhealthy",
     message |-> IF result = "ok" THEN <<check_name, "connection successful">>
                 ELSE IF result = "error" THEN <<check_name, "error", "store error">>
                 ELSE IF result = "open"
                 THEN <<check_name, "error", "CircuitBreakerOpen">>
                 ELSE <<check_name, "connection timeout">>,
     response_time_ms |-> "Some"]

\* perform_health_check(check_name, ..): the ServiceHealth for result, the
\* message being check_name followed by what happened (for Ok(Err(e)), the
\* error e); response_time_ms is Some(elapsed) or None
perform_health_check(check_name, result) ==
    IF result = "ok"
    THEN [status |-> "Healthy", message |-> <<check_name, "connection successful">>,
          response_time_ms |-> "Some"]
    ELSE IF result = "error"
    THEN [status |-> "Unhealthy", message |-> <<check_name, "error", "store error">>,
          response_time_ms |-> "Some"]
    ELSE IF result = "open"
    THEN [status |-> "Unhealthy",
          message |-> <<check_name, "error", "CircuitBreakerOpen">>,
          response_time_ms |-> "Some"]
    ELSE [status |-> "Unhealthy", message |-> <<check_name, "connection timeout">>,
          response_time_ms |-> "None"]

\* the result perform_health_check gets from circuit_breaker.call around the
\* probe: the error of an open breaker, else what the store does
probe_result(b, t, out) == IF is_open(b, t) THEN "open" ELSE out

\* the breaker after the health check's call: a probe that times out is
\* dropped before its result is recorded
probe_breaker(b, t, out, d) ==
    IF out = "timeout" THEN after_is_open(b, t)
    ELSE call_breaker(b, t, out = "ok", d)

\* the gauge after the health check's call
probe_gauge(g, b, t, out, d) ==
    IF out = "timeout"
    THEN IF is_open(b, t) THEN as_metric_value("Open") ELSE g
    ELSE call_gauge(g, b, t, out = "ok", d)

\* AuthService::check_health, lines 193-201: error_details
error_details(db_health, redis_health) ==
    (IF db_health.status = "Unhealthy"
     THEN <<<<"Database", db_health.message>>>> ELSE <<>>)
    \o (IF redis_health.status = "Unhealthy"
        THEN <<<<"Redis", redis_health.message>>>> ELSE <<>>)

\* AuthService::check_health once both checks have returned
check_health(db_health, redis_health) ==
    IF db_health.status = "Unhealthy" \/ redis_health.status = "Unhealthy"
    THEN [res |-> "ServiceUnavailable", database |-> db_health,
          redis |-> redis_health,
          details |-> error_details(db_health, redis_health)]
    ELSE [res |-> "Ok", database |-> db_health, redis |-> redis_health,
          details |-> <<>>]

\* a GET /healthz: tokio::join! of check_db and check_redis, each a call
\* through the breaker of its store
CheckHealth(dout, rout) ==
    \E dd \in IF dout = "error" /\ ~is_open(cb["database"], now)
              THEN error_delays(after_is_open(cb["database"], now)) ELSE {0},
       rd \in IF rout = "error" /\ ~is_open(cb["redis"], now)
              THEN error_delays(after_is_open(cb["redis"], now)) ELSE {0} :
        /\ cb' = [n \in BreakerNames |->
                     IF n = "database" THEN probe_breaker(cb[n], now, dout, dd)
                     ELSE probe_breaker(cb[n], now, rout, rd)]
        /\ gauge' = [n \in BreakerNames |->
                        IF n = "database"
                        THEN probe_gauge(gauge[n], cb[n], now, dout, dd)
                        ELSE probe_gauge(gauge[n], cb[n], now, rout, rd)]
        /\ health' = check_health(
               perform_health_check("Database",
                                    probe_result(cb["database"], now, dout)),
               perform_health_check("Redis",
                                    probe_result(cb["redis"], now, rout)))
        /\ UNCHANGED <<now, callerVars, authVars, jwtVars, dto, cacheVars>>

NextHealth ==
    \/ \E dout \in ProbeOutcomes, rout \in ProbeOutcomes : CheckHealth(dout, rout)
    \/ Tick /\ UNCHANGED <<authVars, jwtVars, edgeVars>>

\* the breakers a health check can meet: closed, or open because
\* FailureThreshold overlapping calls to the store have just failed
TrippedOrNew ==
    {NewBreaker} \cup {failures_recorded(NewBreaker, 0, d, FailureThreshold) :
                          d \in BackoffDelays(0)}

InitHealth ==
    /\ now = 0
    /\ cb \in [BreakerNames -> TrippedOrNew]
    /\ gauge = [n \in BreakerNames |-> as_metric_value("Closed")]
    /\ cpc = [t \in Callers |-> "idle"]
    /\ cdep = [t \in Callers |-> "postgres"]
    /\ cout = [t \in Callers |-> NoResult]
    /\ cres = [t \in Callers |-> NoResult]
    /\ cghost = [t \in Callers |-> NewGhost]
    /\ failRun = [n \in BreakerNames |-> 0]
    /\ stepStore = "postgres"
    /\ AuthInit

SpecHealth == InitHealth /\ [][NextHealth]_vars

(***************************************************************************)
(* Validation of the request bodies: utils/validation.rs and                *)
(* auth/dto/request.rs.  A text is a sequence of characters.                *)
(***************************************************************************)
\* the characters of the texts: a space, an ASCII letter, and a letter that
\* takes two bytes in UTF-8
Chars == {" ", "a", "é"}

\* char::is_whitespace
is_whitespace(c) == c = " "

\* char::len_utf8
len_utf8(c) == IF c = "é" THEN 2 ELSE 1

RECURSIVE TextsOfLen(_)
TextsOfLen(n) ==
    IF n = 0 THEN {<<>>}
    ELSE {Append(x, c) : x \in TextsOfLen(n - 1), c \in Chars}

\* the texts a client can send as username
Texts == UNION {TextsOfLen(n) : n \in 0..MaxLen}

\* str::trim_start, str::trim_end, str::trim
RECURSIVE trim_start(_)
trim_start(text) ==
    IF text # <<>> /\ is_whitespace(Head(text)) THEN trim_start(Tail(text))
    ELSE text

RECURSIVE trim_end(_)
trim_end(text) ==
    IF text # <<>> /\ is_whitespace(text[Len(text)])
    THEN trim_end(SubSeq(text, 1, Len(text) - 1))
    ELSE text

trim(text) == trim_end(trim_start(text))

\* str::len: the length in bytes
RECURSIVE len(_)
len(text) == IF text = <<>> THEN 0 ELSE len_utf8(Head(text)) + len(Tail(text))

ValidOk == [res |-> "Ok", msg |-> ""]
BadRequest(msg) == [res |-> "BadRequest", msg |-> msg]

\* validate_text(text, field); the message is `field` cannot be empty
validate_text(text, empty_msg) ==
    IF trim(text) = <<>> THEN BadRequest(empty_msg) ELSE ValidOk

\* validate_username
validate_username(username) ==
    IF validate_text(username, "Username cannot be empty") # ValidOk
    THEN validate_text(username, "Username cannot be empty")
    ELSE IF len(trim(username)) < 3
    THEN BadRequest("Username must be at least 3 characters")
    ELSE ValidOk

\* the JSON values a client can send as credentials
JsonKinds == {"null", "non_object", "empty_object", "object"}

\* validate_json_credentials
validate_json_credentials(creds) ==
    IF creds = "object" THEN ValidOk ELSE BadRequest("Invalid credentials")

\* <BeginRequest as Validatable>::validate
validate_begin(username) == validate_username(username)

\* <FinishRequest as Validatable>::validate
validate_finish(username, session_id, creds) ==
    IF validate_username(username) # ValidOk THEN validate_username(username)
    ELSE IF validate_text(session_id, "Session ID cannot be empty") # ValidOk
    THEN validate_text(session_id, "Session ID cannot be empty")
    ELSE validate_json_credentials(creds)

\* extract_and_validate of a BeginRequest
ReceiveBegin(username) ==
    /\ dto = NoDto
    /\ dto' = [kind |-> "begin", username |-> username, session_id |-> <<>>,
               credentials |-> "null",
               res |-> validate_begin(username).res,
               msg |-> validate_begin(username).msg]
    /\ UNCHANGED <<now, cb, gauge, callerVars, authVars, jwtVars, health, cacheVars>>

\* extract_and_validate of a FinishRequest
ReceiveFinish(username, session_id, creds) ==
    /\ dto = NoDto
    /\ dto' = [kind |-> "finish", username |-> username,
               session_id |-> session_id, credentials |-> creds,
               res |-> validate_finish(username, session_id, creds).res,
               msg |-> validate_finish(username, session_id, creds).msg]
    /\ UNCHANGED <<now, cb, gauge, callerVars, authVars, jwtVars, health, cacheVars>>

\* the request has been answered, or handed to its handler
Answered ==
    /\ dto # NoDto
    /\ dto' = NoDto
    /\ UNCHANGED <<now, cb, gauge, callerVars, authVars, jwtVars, health, cacheVars>>

NextValidate ==
    \/ Answered
    \/ \E username \in Texts : ReceiveBegin(username)
    \/ \E username \in Texts, session_id \in TextsOfLen(0) \cup TextsOfLen(1),
          creds \in JsonKinds :
          ReceiveFinish(username, session_id, creds)

SpecValidate == Init /\ [][NextValidate]_vars

(***************************************************************************)
(* The prepared statement cache (utils/postgres/prepared_cache.rs) under   *)
(* BaseRepository::execute_prepared_opt (utils/postgres/base.rs).          *)
(***************************************************************************)
otherPrepVars == <<now, cb, gauge, callerVars, authVars, jwtVars, health, dto>>

\* the connections no task holds
FreeConns == Conns \ {ptask[t].client : t \in Tasks}

\* get_or_prepare, lines 49-57: cache.get(&key) under the read lock
cache_get(C, query) == C[query]

\* get_or_prepare, line 66: cache.insert(key, stmt.clone())
cache_insert(C, query, stmt) == [C EXCEPT ![query] = stmt]

\* client.prepare(query) on connection client: a statement of that
\* connection, the n-th prepared for this text
prepare(client, n) == [conn |-> client, id |-> n]

\* execute_prepared_opt, line 63: self.db.get(), a free connection of the pool
GetClient(t, query) ==
    /\ ptask[t].pc = "idle"
    /\ \E c \in FreeConns :
          ptask' = [ptask EXCEPT ![t] =
              [IdlePrepared EXCEPT !.pc = "get_or_prepare", !.query = query,
                                   !.client = c]]
    /\ UNCHANGED <<otherPrepVars, cache, prepares>>

\* get_or_prepare, lines 49-57: the lookup under the read lock; a hit returns
\* the clone of the cached statement
CacheLookup(t) ==
    /\ ptask[t].pc = "get_or_prepare"
    /\ LET hit == cache_get(cache, ptask[t].query)
       IN ptask' = [ptask EXCEPT ![t] =
              IF hit # NoStatement
              THEN [@ EXCEPT !.pc = "query_opt", !.stmt = hit]
              ELSE [@ EXCEPT !.pc = "prepare"]]
    /\ UNCHANGED <<otherPrepVars, cache, prepares>>

\* get_or_prepare, line 59: client.prepare(query).await, which `?` leaves
\* with the error of the connection when it fails
Prepare(t) ==
    /\ ptask[t].pc = "prepare"
    /\ \E fail \in BOOLEAN :
          IF fail
          THEN /\ ptask' = [ptask EXCEPT ![t] = [@ EXCEPT !.pc = "done"]]
               /\ UNCHANGED prepares
          ELSE /\ prepares' = [prepares EXCEPT ![ptask[t].query] = @ + 1]
               /\ ptask' = [ptask EXCEPT ![t] =
                      [@ EXCEPT !.pc = "insert", !.prepared = TRUE,
                                !.stmt = prepare(ptask[t].client,
                                                 prepares[ptask[t].query] + 1)]]
    /\ UNCHANGED <<otherPrepVars, cache>>

\* get_or_prepare, lines 61-68: the insert under the write lock
CacheInsert(t) ==
    /\ ptask[t].pc = "insert"
    /\ cache' = cache_insert(cache, ptask[t].query, ptask[t].stmt)
    /\ ptask' = [ptask EXCEPT ![t] = [@ EXCEPT !.pc = "query_opt"]]
    /\ UNCHANGED <<otherPrepVars, prepares>>

\* execute_prepared_opt, line 65: client.query_opt(&stmt, params) on the
\* connection the task holds
QueryOpt(t) ==
    /\ ptask[t].pc = "query_opt"
    /\ ptask' = [ptask EXCEPT ![t] = [@ EXCEPT !.pc = "done"]]
    /\ UNCHANGED <<otherPrepVars, cache, prepares>>

\* execute_prepared_opt returns; the connection goes back to the pool
PreparedReturn(t) ==
    /\ ptask[t].pc = "done"
    /\ ptask' = [ptask EXCEPT ![t] = IdlePrepared]
    /\ UNCHANGED <<otherPrepVars, cache, prepares>>

NextPrepared ==
    \/ \E t \in Tasks, query \in Queries : GetClient(t, query)
    \/ \E t \in Tasks : CacheLookup(t)
    \/ \E t \in Tasks : Prepare(t)
    \/ \E t \in Tasks : CacheInsert(t)
    \/ \E t \in Tasks : QueryOpt(t)
    \/ \E t \in Tasks : PreparedReturn(t)

SpecPrepared == Init /\ [][NextPrepared]_vars

(***************************************************************************)
(* Properties of the circuit breaker.                                      *)
(***************************************************************************)
\* the service name AppState::new gives the breaker of each store
ServiceOf(store) == IF store = "postgres" THEN "database" ELSE "redis"

\* C1: a call made while the breaker is open never invokes its operation and
\* returns CircuitBreakerOpen carrying the service name of the breaker.
C1_OpenBreakerRejects ==
    \A t \in Callers :
        cghost[t].openAtCall =>
            /\ cpc[t] = "done"
            /\ cghost[t].invocations = 0
            /\ cres[t] = Err("CircuitBreakerOpen", ServiceOf(cdep[t]))

C1_Witness ==
    \E t \in Callers :
        /\ cpc[t] = "done"
        /\ cghost[t].openAtCall
        /\ cres[t].kind = "CircuitBreakerOpen"
        /\ BreakerOpen(cb[ServiceOf(cdep[t])], now)

\* C2: when the FailureThreshold-th call in a row whose operation failed (no
\* successful operation in between) has been recorded, the breaker is open.
C2_ThresholdFailuresOpen ==
    [][\A n \in BreakerNames :
          (failRun[n] < FailureThreshold /\ failRun'[n] = FailureThreshold)
              => BreakerOpen(cb'[n], now')]_vars

\* C3: when the trial call admitted after the backoff has elapsed fails, the
\* breaker is open again once that failure has been recorded.
C3_FailedTrialReopens ==
    [][\A t \in Callers :
          (cpc[t] = "record_failure" /\ cpc'[t] = "done" /\ cghost[t].trial)
              => BreakerOpen(cb'[ServiceOf(cdep[t])], now')]_vars

\* C4: the state, failure count and gauge of a store's breaker change only in
\* a step of a call that goes to that same store.
C4_BreakersIndependent ==
    [][\A n \in BreakerNames :
          (cb'[n] # cb[n] \/ gauge'[n] # gauge[n]) => ServiceOf(stepStore') = n]_vars

C4_Witness ==
    /\ BreakerOpen(cb["database"], now)
    /\ cb["redis"] = NewBreaker
    /\ \E t \in Callers :
          cpc[t] = "done" /\ cdep[t] = "redis" /\ cres[t].kind = "Ok"

\* C5: a call made while the breaker is not open invokes its operation exactly
\* once and returns exactly the outcome of the operation, an error only after
\* record_failure has run.
C5_CallReturnsOutcome ==
    \A t \in Callers :
        /\ cghost[t].invocations <= 1
        /\ (cpc[t] = "done" /\ ~cghost[t].openAtCall) =>
              /\ cghost[t].invocations = 1
              /\ cres[t] \in OpOutcomes
              /\ cres[t] = cout[t]
              /\ (cres[t].kind # "Ok" => cghost[t].recorded)

C5_Witness ==
    \E t \in Callers :
        /\ cpc[t] = "done"
        /\ ~cghost[t].openAtCall
        /\ cghost[t].recorded
        /\ cres[t] = Err("InternalServer", "store error")
        /\ BreakerOpen(cb[ServiceOf(cdep[t])], now)

(***************************************************************************)
(* Properties of the sessions and users of the auth service.               *)
(***************************************************************************)
FinishOps == {"finish_register", "finish_login"}

\* task t takes a request for one of the handlers in ops in this step
Starts(t, ops) == task[t].pc = "idle" /\ task'[t].op \in ops

\* C6: when the lookup statement of a finish handler ran, it found the session
\* exactly if a session row with the presented id exists, belongs to the user
\* with the presented username and has the purpose of the handler; when it
\* found none the handler returns Not-Found at once and writes nothing.
C6_LookupMatchesAll ==
    [][\A t \in Tasks :
          (Starts(t, FinishOps) /\ task'[t].lookup \in {"found", "notfound"}) =>
              LET me == task'[t]
                  wanted == IF me.op = "finish_register" THEN "registration"
                            ELSE "login"
                  match == \E ws \in sessions, us \in users :
                              /\ ws.id = me.sid
                              /\ ws.user_id = us.id
                              /\ us.username = me.username
                              /\ ws.purpose = wanted
              IN /\ (me.lookup = "found") <=> match
                 /\ me.lookup = "notfound" =>
                       /\ me.pc = "done"
                       /\ me.res = "NotFound"
                       /\ UNCHANGED <<users, sessions, credentials, cleanups>>]_vars

C6_Witness ==
    \E t \in Tasks :
        /\ task[t].pc = "done"
        /\ task[t].op = "finish_login"
        /\ task[t].lookup = "notfound"
        /\ task[t].res = "NotFound"
        /\ \E ws \in sessions, us \in users :
              /\ ws.id = task[t].sid
              /\ ws.user_id = us.id
              /\ us.username = task[t].username
              /\ ws.purpose = "registration"

\* C7: once a finish handler whose lookup found the session has returned, the
\* session row is gone or its deletion has been handed to the cleanup task.
C7_SessionDeletedAfterFinish ==
    \A t \in Tasks :
        (task[t].pc = "done" /\ task[t].op \in FinishOps /\ task[t].lookup = "found")
            => (delete_by_id(sessions, task[t].sid) = {} \/ Spawned(task[t].sid))

\* C8: after a finish_register with session id S has returned success, the
\* lookup of every later finish_register presenting S finds no session and the
\* call returns Not-Found.
C8_ConsumedSessionNotFound ==
    [][\A t \in Tasks :
          (/\ Starts(t, {"finish_register"})
           /\ task'[t].sid \in consumed
           /\ task'[t].lookup \in {"found", "notfound"})
              => (task'[t].lookup = "notfound" /\ task'[t].res = "NotFound")]_vars

\* C9: the lookup of a finish handler never finds a session whose expires_at
\* has passed.
C9_ExpiredSessionRejected ==
    [][\A t \in Tasks :
          (Starts(t, FinishOps) /\ task'[t].lookup = "found")
              => \A ws \in sessions : ws.id = task'[t].sid => now <= ws.expires_at]_vars

\* C10: create_user for a username whose user is active returns Already-Exists
\* (or the error of the lookup) and changes nothing; for one whose user is
\* pending it goes on with that user's id and inserts nothing; only for a
\* username without a user does it reach the insert, which adds exactly one
\* new pending row with that username and a fresh id, or fails and adds none.
C10_CreateUser ==
    [][\A t \in Tasks :
          LET a == task[t]
              b == task'[t]
              rows == {x \in users : x.username = b.username}
          IN /\ Starts(t, {"begin_register"}) =>
                   /\ users' = users
                   /\ (\E x \in rows : x.status = "active") =>
                         (b.pc = "done" /\ b.res \in {"AlreadyExists", "InternalServer"})
                   /\ (\E x \in rows : x.status = "pending") =>
                         /\ b.pc \in {"create_session", "done"}
                         /\ b.pc = "create_session" => \E x \in rows : b.uid = x.id
                         /\ b.pc = "done" => b.res = "InternalServer"
                   /\ rows = {} =>
                         \/ b.pc = "insert_user"
                         \/ b.pc = "done" /\ b.res = "InternalServer"
             /\ (a.pc = "insert_user" /\ b.pc # "insert_user") =>
                   \/ /\ users' = users
                      /\ b.pc = "done"
                      /\ b.res \in {"InternalServer", "CircuitBreakerOpen"}
                   \/ /\ rows = {}
                      /\ \E row \in users' :
                            /\ row \notin users
                            /\ users' = users \cup {row}
                            /\ row.username = a.username
                            /\ row.role = a.role
                            /\ row.status = "pending"
                            /\ \A x \in users : x.id # row.id
                            /\ b.pc = "create_session" => b.uid = row.id]_vars

C10_Witness ==
    \E t \in Tasks :
        /\ task[t].op = "begin_register"
        /\ task[t].pc = "create_session"
        /\ \E x \in users, ws \in sessions :
              /\ x.username = task[t].username
              /\ x.status = "pending"
              /\ x.id = task[t].uid
              /\ ws.user_id = x.id
        /\ Cardinality(select_by_username(users, task[t].username)) = 1

(***************************************************************************)
(* Properties of registration, activation and the signature counter.       *)
(***************************************************************************)
\* C11: a begin_register that found no user for its username, and whose
\* INSERT then meets the user a concurrent begin_register has created, goes on
\* with that same user instead of failing.
C11_ConcurrentBeginSameUser ==
    [][\A t \in Tasks :
          (/\ task[t].pc = "insert_user"
           /\ task'[t].pc # "insert_user"
           /\ username_taken(users, task[t].username)
           /\ ~DbOpen)
              => /\ task'[t].pc = "create_session"
                 /\ \E x \in users' : /\ x.username = task[t].username
                                      /\ x.id = task'[t].uid]_vars
\* C12: a user's status changes only from pending to active, only in the
\* commit of the complete_registration of a finish_register for that user's
\* username; every other step of every handler leaves all statuses as they are.
C12_StatusOnlyActivated ==
    [][\A u \in users, v \in users' :
          (u.id = v.id /\ u.status # v.status)
              => /\ u.status = "pending"
                 /\ v.status = "active"
                 /\ \E t \in Tasks : /\ task[t].op = "finish_register"
                                     /\ task[t].pc = "commit"
                                     /\ task'[t].tx = "committed"
                                     /\ task[t].username = u.username]_vars

\* a finish_register has committed and its user is active
C12_Witness ==
    \E t \in Tasks, u \in users : /\ task[t].tx = "committed"
                                  /\ u.username = task[t].username
                                  /\ u.status = "active"
\* C13: in every state of the committed tables, whichever requests are midway
\* and whatever has failed, a credential exists only for an active user and
\* every active user has at least one credential.
C13_RegistrationAtomic ==
    /\ \A c \in credentials :
           \E u \in users : u.id = c.user_id /\ u.status = "active"
    /\ \A u \in users :
           u.status = "active" => \E c \in credentials : c.user_id = u.id

\* a complete_registration failed after its INSERT and was rolled back: the
\* user is still pending and has no credential
C13_Witness ==
    \E t \in Tasks, u \in users :
        /\ task[t].tx = "rolled_back"
        /\ u.username = task[t].username
        /\ u.status = "pending"
        /\ ~\E c \in credentials : c.user_id = u.id
\* C14: a user is activated once: no user ever has the credentials of two
\* completed finish_register calls.
C14_ActivationOnce ==
    \A c1 \in credentials, c2 \in credentials :
        c1.user_id = c2.user_id => c1.id = c2.id
\* C15: the signature counter stored for a credential never decreases,
\* whatever sequence or interleaving of finish_login calls runs.
C15_CounterNeverDecreases ==
    [][\A c \in credentials, d \in credentials' :
          c.id = d.id => d.counter >= c.counter]_vars
(***************************************************************************)
(* Properties of refresh tokens and the revocation list.                   *)
(***************************************************************************)
\* the token a token handler was called with
TokenOf(rec) == [jti |-> rec.jti, exp |-> rec.exp, sig |-> rec.sig]

\* task t receives a request for one of the token handlers ops
StartsJwt(t, ops) == jtask[t].pc = "idle" /\ jtask'[t].op \in ops

\* some refresh of the token with this jti has returned a new pair
Rotated(jti) == \E k \in tokens : k.parent = jti

\* C16: once a refresh of token T has returned a new pair, a later refresh of
\* T does not get past validation and, the store answering, fails
\* Unauthorized; a refresh of a newly issued token that is unexpired and was
\* never revoked passes validation and, the store answering, returns a pair
\* with a new refresh token.
C16_RotationSequential ==
    [][\A t \in Tasks :
          /\ (StartsJwt(t, {"refresh"}) /\ Rotated(jtask'[t].jti))
                => /\ jtask'[t].pc = "done"
                   /\ jtask'[t].why # "store" => jtask'[t].res = "Unauthorized"
          /\ (/\ StartsJwt(t, {"refresh"})
              /\ jtask'[t].sig = "valid"
              /\ jtask'[t].exp >= now
              /\ \E k \in tokens : k.jti = jtask'[t].jti /\ k.parent # 0
              /\ ~\E e \in revoked : e.jti = jtask'[t].jti
              /\ jtask'[t].why # "store")
                => jtask'[t].pc = "blacklist"
          /\ (/\ jtask[t].pc = "blacklist"
              /\ jtask[t].op = "refresh"
              /\ jtask'[t].pc = "done"
              /\ jtask'[t].why # "store")
                => /\ jtask'[t].res = "Ok"
                   /\ \E k \in tokens' \ tokens :
                          k.jti = jtask'[t].minted /\ k.parent = jtask[t].jti]_vars

\* C17: of all the refresh calls made with one refresh token at most one
\* returns a new pair: no two issued tokens come from the same token.
C17_SingleUse ==
    \A a \in tokens, b \in tokens :
        (a.parent # 0 /\ a.parent = b.parent) => a.jti = b.jti

\* C18: validate_refresh, as refresh and logout call it, decodes the token
\* before it asks the revocation list: a token that fails signature or expiry
\* is rejected (Unauthorized from refresh) without a command to redis and
\* without a call through its breaker, and a token that decodes and whose jti
\* is on the list is rejected as revoked when the store answers.
C18_DecodeThenRevocation ==
    [][\A t \in Tasks :
          StartsJwt(t, {"refresh", "logout"}) /\ TokenOf(jtask'[t]) # EmptyToken
              => /\ ~decode_ok(TokenOf(jtask'[t]), now)
                    => /\ jtask'[t].why = "invalid"
                       /\ ~jtask'[t].asked
                       /\ cb' = cb
                       /\ jtask'[t].pc = "done"
                       /\ jtask'[t].op = "refresh"
                             => jtask'[t].res = "Unauthorized"
                 /\ (/\ decode_ok(TokenOf(jtask'[t]), now)
                     /\ exists(revoked, jtask'[t].jti, now)
                     /\ jtask'[t].why # "store")
                    => /\ jtask'[t].why = "revoked"
                       /\ jtask'[t].asked
                       /\ jtask'[t].pc = "done"
                       /\ jtask'[t].op = "refresh"
                             => jtask'[t].res = "Unauthorized"]_vars

\* one refresh was rejected because its token does not decode, another
\* because its token, which decodes, is revoked
C18_Witness ==
    \E a \in Tasks, b \in Tasks :
        /\ jtask[a].op = "refresh" /\ jtask[a].why = "invalid"
        /\ ~jtask[a].asked /\ jtask[a].res = "Unauthorized"
        /\ jtask[b].op = "refresh" /\ jtask[b].why = "revoked"
        /\ jtask[b].sig = "valid" /\ jtask[b].res = "Unauthorized"

\* the clock reading at which a revocation entry was written
WrittenAt(e) == e.until - e.ttl

\* C19: a revocation entry is written with ttl max(1, exp - now), exp being
\* the expiry of the revoked token and now the time of the write.
C19_TtlIsRemainingLifetime ==
    \A e \in revoked, k \in tokens :
        k.jti = e.jti => e.ttl = Max(1, k.exp - WrittenAt(e))

\* C20: every revocation entry is written with a ttl of at least 1 second.
C20_TtlAtLeastOne ==
    \A e \in revoked : e.ttl >= 1

\* a token was revoked after its expiry had passed
C20_Witness ==
    \E e \in revoked, k \in tokens :
        k.jti = e.jti /\ WrittenAt(e) > k.exp
\* the jti values the revocation store has a key for
RevokedJtis(R) == {e.jti : e \in R}

\* C21: a blacklist call that the store carries out adds the jti to the
\* revoked ones and nothing else, so that a call for a jti that is already
\* revoked leaves the set of revoked jti values as it was; the store holds
\* one entry for the jti and is_blacklisted answers true after the call.
C21_RevocationIdempotent ==
    [][\A t \in Tasks :
          (/\ jtask[t].pc = "blacklist"
           /\ jtask'[t].pc = "done"
           /\ jtask'[t].why # "store")
              => /\ RevokedJtis(revoked') = RevokedJtis(revoked) \cup {jtask[t].jti}
                 /\ jtask[t].jti \in RevokedJtis(revoked)
                       => RevokedJtis(revoked') = RevokedJtis(revoked)
                 /\ Cardinality({e \in revoked' : e.jti = jtask[t].jti}) = 1
                 /\ exists(revoked', jtask[t].jti, now)]_vars

\* two refresh calls have both revoked the same jti, the second one when the
\* entry of the first was there already, and both calls succeeded
C21_Witness ==
    \E a \in Tasks, b \in Tasks :
        /\ a # b
        /\ jtask[a].op = "refresh" /\ jtask[b].op = "refresh"
        /\ jtask[a].jti = jtask[b].jti
        /\ jtask[a].minted # 0 /\ jtask[b].minted # 0
        /\ Cardinality({e \in revoked : e.jti = jtask[a].jti}) = 1
\* C22: logout returns the success message whatever token it is given and
\* whatever the revocation store does.
C22_LogoutAlwaysSucceeds ==
    \A t \in Tasks :
        (jtask[t].op = "logout" /\ jtask[t].pc = "done") => jtask[t].res = "Ok"

\* one logout has returned although redis failed or its breaker was open,
\* another although its token was revoked already
C22_Witness ==
    \E a \in Tasks, b \in Tasks :
        /\ jtask[a].op = "logout" /\ jtask[a].pc = "done"
        /\ jtask[a].why = "store" /\ jtask[a].res = "Ok"
        /\ jtask[b].op = "logout" /\ jtask[b].pc = "done"
        /\ jtask[b].why = "revoked" /\ jtask[b].res = "Ok"
(***************************************************************************)
(* Properties of the health check and of request validation.               *)
(***************************************************************************)
\* the failure of the health check carries the message of this check
Carries(h, service) ==
    \E i \in 1..Len(h.details) :
        h.details[i] = <<service, h[IF service = "Database" THEN "database"
                                    ELSE "redis"].message>>

\* C23: check_health succeeds exactly when both checks report healthy, and
\* otherwise fails with ServiceUnavailable carrying the messages of both
\* checks.
C23_HealthAggregate ==
    health.res # "None"
        => /\ health.res = "Ok" <=> /\ health.database.status = "Healthy"
                                    /\ health.redis.status = "Healthy"
           /\ health.res # "Ok"
                 => /\ health.res = "ServiceUnavailable"
                    /\ Carries(health, "Database")
                    /\ Carries(health, "Redis")
\* the characters of a text that are not whitespace
RECURSIVE NonWhitespace(_)
NonWhitespace(text) ==
    IF text = <<>> THEN 0
    ELSE (IF is_whitespace(Head(text)) THEN 0 ELSE 1) + NonWhitespace(Tail(text))

\* C24: a request whose username has fewer than 3 non-whitespace characters
\* is rejected with BadRequest, with 'Username cannot be empty' when it has
\* none and 'Username must be at least 3 characters' otherwise; a begin
\* request whose username has 3 or more is accepted.
C24_UsernameValidation ==
    dto.res # "None"
        => /\ NonWhitespace(dto.username) < 3
                 => /\ dto.res = "BadRequest"
                    /\ dto.msg = IF NonWhitespace(dto.username) = 0
                                 THEN "Username cannot be empty"
                                 ELSE "Username must be at least 3 characters"
           /\ (NonWhitespace(dto.username) >= 3 /\ dto.kind = "begin")
                 => dto.res = "Ok"

\* the handlers whose first statement reads or writes the database
StoreFirstOps == {"begin_register", "begin_login", "finish_register",
                  "finish_login"}

\* task t takes up a request whose handler gets as far as its first
\* repository operation (a finish handler parses the session id before it)
ReachesStore(t) ==
    /\ Starts(t, StoreFirstOps)
    /\ task'[t].op \in FinishOps => uuid_parses(task'[t].sid)

\* C25: while the database breaker is open, no handler's first repository
\* operation contacts the database: the handler gets CircuitBreakerOpen back
\* and returns it, whatever rows the database holds; this includes the
\* username lookup of create_user.
C25_AllThroughBreaker ==
    [][\A t \in Tasks :
          (ReachesStore(t) /\ DbOpen)
              => /\ task'[t].pc = "done"
                 /\ task'[t].res = "CircuitBreakerOpen"]_vars

\* C26: when a call through a breaker returns, the gauge of that service
\* reads 1 exactly if the breaker is open and 0 exactly if it is closed: open
\* once the failure that trips the breaker has been recorded, closed after a
\* call that succeeded.
C26_GaugeMatchesBreaker ==
    [][\A t \in Callers :
          (cpc[t] # "done" /\ cpc'[t] = "done")
              => LET n == ServiceOf(cdep'[t])
                 IN gauge'[n] = IF BreakerOpen(cb'[n], now')
                                THEN as_metric_value("Open")
                                ELSE as_metric_value("Closed")]_vars

\* C27: every session a successful finish_register or finish_login has
\* consumed (its cleanup is spawned when the handler succeeds) is eventually
\* deleted from the store, whatever the database and its breaker do when the
\* cleanup task runs.
C27_ConsumedEventuallyDeleted ==
    \A sid \in SessionIds :
        Spawned(sid) ~> (delete_by_id(sessions, sid) = {})

\* C28: the deletion cleanup_session spawns never changes what a handler
\* returns, whether it succeeds, fails, is rejected by the open breaker or
\* finds no row; and the handler does not wait for it: the step that spawns
\* the deletion of a session is the step in which a finish handler returns
\* success for that session.
C28_CleanupSwallowed ==
    [][\A sid \in SessionIds :
          /\ cleanups'[sid] < cleanups[sid] => task' = task
          /\ cleanups'[sid] > cleanups[sid]
                => \E t \in Tasks :
                      /\ task[t].pc # "done"
                      /\ task'[t].pc = "done"
                      /\ task'[t].op \in FinishOps
                      /\ task'[t].sid = sid
                      /\ task'[t].res = "Ok"]_vars

\* a finish handler has returned success, the deletion of its session has
\* run and the session is still stored
C28_Witness ==
    \E t \in Tasks :
        /\ task[t].pc = "done"
        /\ task[t].op \in FinishOps
        /\ task[t].res = "Ok"
        /\ ~Spawned(task[t].sid)
        /\ delete_by_id(sessions, task[t].sid) # {}

C30_ValidateRevokeMint ==
    [][/\ tokens' # tokens
          => \E t \in Tasks :
                /\ jtask[t].op = "refresh" /\ jtask[t].pc = "blacklist"
                /\ jtask'[t].pc = "done" /\ jtask'[t].res = "Ok"
                /\ \E k \in tokens' \ tokens : k.jti = jtask'[t].minted
                /\ \E e \in revoked' : e.jti = jtask[t].jti /\ WrittenAt(e) = now
       /\ \A t \in Tasks :
             /\ (StartsJwt(t, {"refresh"}) /\ jtask'[t].pc = "done")
                   => /\ jtask'[t].why \in {"invalid", "revoked"}
                            => jtask'[t].res = "Unauthorized"
                      /\ jtask'[t].why = "store"
                            => jtask'[t].res = IF RedisOpen THEN "CircuitBreakerOpen"
                                               ELSE "InternalServer"
                      /\ jtask'[t].why # ""
                      /\ jtask'[t].minted = 0
                      /\ tokens' = tokens /\ revoked' = revoked
             /\ (/\ jtask[t].op = "refresh" /\ jtask[t].pc = "blacklist"
                 /\ jtask'[t].pc = "done" /\ jtask'[t].res # "Ok")
                   => /\ jtask'[t].why = "store"
                      /\ jtask'[t].res = IF RedisOpen THEN "CircuitBreakerOpen"
                                         ELSE "InternalServer"
                      /\ jtask'[t].minted = 0
                      /\ tokens' = tokens /\ revoked' = revoked]_vars

\* one refresh has returned a pair, its token revoked, and another has
\* returned the error of the store without a pair
C30_Witness ==
    \E a \in Tasks, b \in Tasks :
        /\ jtask[a].op = "refresh" /\ jtask[a].pc = "done"
        /\ jtask[a].res = "Ok" /\ jtask[a].minted # 0
        /\ \E e \in revoked : e.jti = jtask[a].jti
        /\ jtask[b].op = "refresh" /\ jtask[b].pc = "done"
        /\ jtask[b].why = "store" /\ jtask[b].minted = 0
        /\ jtask[b].res \in {"InternalServer", "CircuitBreakerOpen"}

(***************************************************************************)
(* Properties of finish_login and begin_login.                             *)
(***************************************************************************)
\* the rows of table C other than the one with id cred
OtherRows(C, cred) == {c \in C : c.id # cred}

C32_TokensOnlyAfterVerification ==
    [][\A t \in Tasks :
          LET me == task'[t]
          IN /\ (me.op # "finish_login" \/ me.res # "Ok") => me.pair = NoPair
             /\ (me.op = "finish_login" /\ me.res = "Ok" /\ task[t].pc # "done")
                   => /\ me.lookup = "found"
                      /\ \E u \in users :
                            /\ u.username = me.username
                            /\ me.pair = [sub |-> u.id, username |-> u.username,
                                          role |-> u.role]
                      /\ Starts(t, {"finish_login"})
                            => /\ \E ws \in sessions :
                                     /\ ws.id = me.sid
                                     /\ ws.purpose = "login"
                                     /\ ws.user_id = me.pair.sub
                               /\ SessionPasskeys(me.sid) # {}]_vars

\* a finish_login has returned the pair of alice, another call before it
\* having registered her
C32_Witness ==
    \E t \in Tasks :
        /\ task[t].op = "finish_login" /\ task[t].pc = "done"
        /\ task[t].res = "Ok"
        /\ task[t].pair.username = "alice"
        /\ task[t].pair.sub # 0

(***************************************************************************)
(* Properties of access tokens.                                            *)
(***************************************************************************)
\* C33: validate_access answers from the signature and the expiry of the
\* token alone: Ok exactly if the signature verifies and the token is not
\* expired (decode's leeway included), whatever the revocation list holds and
\* whatever state the redis breaker is in, and it sends no command to redis
\* and makes no call through the breaker.
C33_AccessIgnoresRevocation ==
    [][\A t \in Tasks :
          StartsJwt(t, {"validate_access"})
              => /\ jtask'[t].pc = "done"
                 /\ jtask'[t].res = IF /\ jtask'[t].sig = "valid"
                                       /\ jtask'[t].exp >= now - DecodeLeeway
                                    THEN "Ok" ELSE "Unauthorized"
                 /\ ~jtask'[t].asked
                 /\ cb' = cb /\ gauge' = gauge /\ revoked' = revoked]_vars

\* an access token was accepted although the refresh token of its pair is
\* revoked
C33_Witness ==
    \E t \in Tasks :
        /\ jtask[t].op = "validate_access" /\ jtask[t].pc = "done"
        /\ jtask[t].res = "Ok"
        /\ exists(revoked, jtask[t].jti, now)

\* an access token was accepted while the redis breaker is open
AccessAcceptedWhileOpen ==
    \E t \in Tasks :
        /\ jtask[t].op = "validate_access" /\ jtask[t].pc = "done"
        /\ jtask[t].res = "Ok"
        /\ BreakerOpen(cb["redis"], now)

\* the user named username is active and owns a credential
CanLogin(username) ==
    \E x \in users, c \in credentials :
        x.username = username /\ x.status = "active" /\ c.user_id = x.id

\* C34: begin_login goes on to the engine and to a login session only for a
\* user that is active and owns a credential; for an unknown username and
\* for a pending user it returns Not-Found (the error of the store when the
\* statement did not run) and creates no session; every login session
\* created belongs to a user that is active and owns a credential.
C34_BeginLoginActiveOnly ==
    [][/\ \A t \in Tasks :
             Starts(t, {"begin_login"})
                 => /\ sessions' = sessions
                    /\ ~CanLogin(task'[t].username)
                          => /\ task'[t].pc = "done"
                             /\ task'[t].res \in {"NotFound", StoreError}
                    /\ task'[t].pc # "done"
                          => /\ CanLogin(task'[t].username)
                             /\ \E x \in users :
                                   /\ x.username = task'[t].username
                                   /\ x.id = task'[t].uid
                    /\ task'[t].res # "Ok"
       /\ \A ws \in sessions' \ sessions :
             ws.purpose = "login"
                 => \E x \in users, c \in credentials :
                       /\ x.id = ws.user_id /\ x.status = "active"
                       /\ c.user_id = x.id]_vars

\* begin_login has answered Not-Found for a user whose registration was begun
\* and not finished
C34_Witness ==
    \E t \in Tasks, x \in users :
        /\ task[t].op = "begin_login" /\ task[t].pc = "done"
        /\ task[t].res = "NotFound"
        /\ x.username = task[t].username /\ x.status = "pending"

\* C35: a finish_register or finish_login whose session id is not a UUID
\* returns Bad-Request without a call to the repository: the lookup is not
\* made, the breaker and its gauge are as before, and no table changes; this
\* is so also while the database breaker is open.
C35_MalformedSessionId ==
    [][\A t \in Tasks :
          (Starts(t, FinishOps) /\ task'[t].sid \notin SessionIds)
              => /\ task'[t].pc = "done"
                 /\ task'[t].res = "BadRequest"
                 /\ task'[t].lookup = "na"
                 /\ cb' = cb /\ gauge' = gauge
                 /\ UNCHANGED <<users, sessions, credentials, cleanups>>]_vars

\* a finish handler has returned Bad-Request for a malformed session id while
\* the database breaker is open
C35_Witness ==
    \E t \in Tasks :
        /\ task[t].op \in FinishOps /\ task[t].pc = "done"
        /\ task[t].sid \notin SessionIds
        /\ task[t].res = "BadRequest"
        /\ BreakerOpen(cb["database"], now)

\* the ServiceHealth the claim gives for the check called name whose breaker
\* is open or not and whose probe, when it is started, goes as out
Classified(name, open, out) ==
    IF open
    THEN [status |-> "Unhealthy", response_time_ms |-> "Some",
          message |-> <<name, "error", "CircuitBreakerOpen">>]
    ELSE IF out = "ok"
    THEN [status |-> "Healthy", response_time_ms |-> "Some",
          message |-> <<name, "connection successful">>]
    ELSE IF out = "error"
    THEN [status |-> "Unhealthy", response_time_ms |-> "Some",
          message |-> <<name, "error", "store error">>]
    ELSE [status |-> "Unhealthy", response_time_ms |-> "None",
          message |-> <<name, "connection timeout">>]

\* C36: each dependency check of a health check reports exactly one of three
\* outcomes: healthy with a latency when the probe answers in time, unhealthy
\* with the error and a latency when the probe fails in time (with
\* CircuitBreakerOpen when the breaker is open, whatever the store would have
\* done, the breaker recording nothing), and unhealthy with the timeout
\* message and no latency when the probe takes longer than the timeout.
C36_HealthClassification ==
    [][\A dout \in ProbeOutcomes, rout \in ProbeOutcomes :
          CheckHealth(dout, rout)
              => /\ health'.database =
                       Classified("Database", BreakerOpen(cb["database"], now), dout)
                 /\ health'.redis =
                       Classified("Redis", BreakerOpen(cb["redis"], now), rout)
                 /\ \A n \in BreakerNames :
                       BreakerOpen(cb[n], now)
                           => /\ cb'[n].num_failures = cb[n].num_failures
                              /\ cb'[n].state = "Open"]_vars

\* a health check has met an open database breaker and a redis probe that
\* timed out
C36_Witness ==
    /\ health.database.message = <<"Database", "error", "CircuitBreakerOpen">>
    /\ health.database.response_time_ms = "Some"
    /\ health.redis.message = <<"Redis", "connection timeout">>
    /\ health.redis.response_time_ms = "None"

(***************************************************************************)
(* Properties of the prepared statement cache.                             *)
(***************************************************************************)
\* C37: every query text is prepared at most once, also when first calls for
\* it overlap; a call that finds the text in the cache takes the cached
\* statement and prepares nothing.
C37_PreparedOnce ==
    /\ \A q \in Queries : prepares[q] <= 1
    /\ \A t \in Tasks :
          (ptask[t].pc = "query_opt" /\ ~ptask[t].prepared)
              => ptask[t].stmt = cache[ptask[t].query]

\* C40: the statement a task runs with query_opt was prepared on the
\* connection the task holds.
C40_HandleOnOwnConnection ==
    \A t \in Tasks :
        ptask[t].pc = "query_opt" => ptask[t].stmt.conn = ptask[t].client

(***************************************************************************)
(* Properties of revocation over time and of the unavailable store.        *)
(***************************************************************************)
\* C38: once the jti of a refresh token has been written to the revocation
\* list, validate_refresh never accepts that token again: no later refresh
\* or logout with it gets past validation.
C38_RevocationPermanent ==
    [][\A t \in Tasks :
          (/\ StartsJwt(t, {"refresh", "logout"})
           /\ jtask'[t].jti \in RevokedJtis(revoked))
              => jtask'[t].pc = "done"]_vars

\* C39: validate_refresh accepts a token only when the revocation list has
\* answered: while the redis breaker is open, and when the command fails, a
\* token that decodes is not accepted; the handler is done in that step,
\* refresh with the error of the store and without a pair, and neither
\* handler has written to the revocation list.
C39_FailsClosed ==
    [][\A t \in Tasks :
          StartsJwt(t, {"refresh", "logout"})
              => /\ (BreakerOpen(cb["redis"], now) \/ jtask'[t].why = "store")
                       => /\ jtask'[t].pc = "done"
                          /\ jtask'[t].minted = 0
                          /\ tokens' = tokens /\ revoked' = revoked
                          /\ (jtask'[t].op = "refresh"
                              /\ TokenOf(jtask'[t]).sig = "valid"
                              /\ TokenOf(jtask'[t]).exp >= now)
                                => jtask'[t].res \in {"InternalServer",
                                                      "CircuitBreakerOpen"}
                 /\ jtask'[t].pc = "blacklist"
                       => /\ jtask'[t].asked
                          /\ cb'["redis"].state = "Closed"
                          /\ cb'["redis"].num_failures = 0]_vars

\* a refresh with a good token has been refused because the redis breaker is
\* open, and nothing is revoked
C39_Witness ==
    \E t \in Tasks :
        /\ jtask[t].op = "refresh" /\ jtask[t].pc = "done"
        /\ jtask[t].sig = "valid" /\ jtask[t].exp >= now
        /\ jtask[t].res = "CircuitBreakerOpen"
        /\ BreakerOpen(cb["redis"], now)
        /\ revoked = {}

====
